---------------------------- MODULE Spec2Model ----------------------------
(***************************************************************************)
(* A model of cronometer's runtime food catalog (core/foodManager.py), its *)
(* day aggregator (user/userDay.py) and the measure handling of the food   *)
(* assembler (datasource/usdaFoodLoader.py, datasource/userFoods.py).      *)
(*                                                                         *)
(* Amounts, gram weights and nutrient values are Python floats.  They are  *)
(* modelled as binary floating-point numbers of reduced width: MantBits    *)
(* significant bits, round-to-nearest-even, a smallest quantum of          *)
(* 2^-FracBits, no overflow.  A float is held as the integer count of      *)
(* quanta it is worth.                                                     *)
(***************************************************************************)
EXTENDS Integers, Sequences, FiniteSets, TLC

\* ------------------------------------------------------------------ bounds
\* Significant bits of a float (53 in the program's doubles).
MantBits == 5
\* The smallest quantum of a float is 2^-FracBits.
FracBits == 1
\* Food objects the loaders may create of one (source, id) in one run.
MaxObjects == 2
\* Longest serving list handed to UserDay.
MaxServings == 3
\* Threads that call the manager at the same time.
MaxThreads == 2
\* Changes callers make to a serving list a UserDay handed out.
MaxEdits == 2
\* Longest list of portion rows, of food rows and of brand rows of one run.
MaxRows == 2
\* Longest measure list a food of the measures map may grow to.
MaxMeasures == 3
\* Longest list of raw nutrient rows of a food _fixOmegaFats is applied to.
MaxRaw == 3
\* Times _fixOmegaFats is applied to one Food.
MaxFixes == 2
\* Times the legacy nutrient definitions are loaded in one process.
MaxLoads == 2
\* Longest list of legacy servings handed to convertServings.
MaxLegacy == 3
\* Longest list of portion rows handed to generateMeasures on its own.
MaxPortions == 3

\* ------------------------------------------------------- float arithmetic
RECURSIVE Pow2(_)
Pow2(n) == IF n <= 0 THEN 1 ELSE 2 * Pow2(n - 1)

Abs(x) == IF x < 0 THEN -x ELSE x

\* n/d rounded to the nearest integer, ties to the even one (n >= 0, d > 0).
RoundHalfEven(n, d) ==
    LET q == n \div d
        r == n % d
    IN  IF 2 * r < d THEN q
        ELSE IF 2 * r > d THEN q + 1
        ELSE IF q % 2 = 0 THEN q ELSE q + 1

\* The least e >= from with n/d < 2^(MantBits+e).
RECURSIVE ExponentOf(_, _, _)
ExponentOf(n, d, from) ==
    IF n < d * Pow2(MantBits + from) THEN from ELSE ExponentOf(n, d, from + 1)

\* The float nearest to n/d quanta (d > 0); rounding is symmetric in sign.
FRound(n, d) ==
    LET e == ExponentOf(Abs(n), d, 0)
        r == RoundHalfEven(Abs(n), d * Pow2(e)) * Pow2(e)
    IN  IF n < 0 THEN -r ELSE r

\* The float a literal n/d denotes.
FLit(n, d) == FRound(n * Pow2(FracBits), d)

\* float + float
FAdd(a, b) == FRound(a + b, 1)

\* float - float
FSub(a, b) == FRound(a - b, 1)

\* float * float
FMul(a, b) == FRound(a * b, Pow2(FracBits))

\* float / float (b # 0)
FDiv(a, b) == FRound(a * Pow2(FracBits), b)

\* float / int, the int exact as it is in a double (k # 0)
FDivInt(a, k) == FRound(a, k)

\* Python's sum(): a left fold of + from the int 0.
RECURSIVE PySum(_)
PySum(xs) ==
    IF xs = << >> THEN 0
    ELSE FAdd(PySum(SubSeq(xs, 1, Len(xs) - 1)), xs[Len(xs)])


\* ------------------------------------------------------------ food sources
USER == "user"
CRDB == "crdb"
LEGACY == "sr_legacy_food"

\* The members of FoodSource the model activates: one per branch of
\* _FoodSourceWrapper.
Sources == {USER, CRDB, LEGACY}

\* The food ids the callers ask for.
FoodIds == {1, 2, 3, 4}

\* The nutrient names of NutrientInfos.nutrients, in list order.
Nutrients == <<"Protein", "Fat", "Carbs">>

Measure(g, a, d) == [grams |-> g, amount |-> a, description |-> d]

GRAM == Measure(FLit(1, 1), FLit(1, 1), "g")

FoodNutrient(n, a) == [name |-> n, amount |-> a]

\* ------------------------------------------------- the stored food records
\* What the food files of the user's directory hold: nutrient rows (per
\* 100 g) and measures, as UserFood leaves them after construction.  There
\* is no file for id 4.
NoFood == [name |-> "", measures |-> << >>, nutrients |-> << >>]

StoredFoods ==
    (1 :> [name |-> "Almond butter",
           measures |-> <<GRAM, Measure(FLit(16, 1), FLit(1, 1), "tbsp")>>,
           nutrients |-> <<FoodNutrient("Fat", FLit(31, 2)),
                           FoodNutrient("Water", FLit(2, 1))>>]) @@
    (2 :> [name |-> "Rice milk",
           measures |-> <<GRAM, Measure(FLit(25, 1), FLit(1, 1), "cup")>>,
           nutrients |-> <<FoodNutrient("Fat", FLit(1, 1)),
                           FoodNutrient("Carbs", FLit(3, 1))>>]) @@
    (3 :> [name |-> "Tofu",
           measures |-> <<GRAM>>,
           nutrients |-> <<FoodNutrient("Protein", FLit(10, 1)),
                           FoodNutrient("Fat", FLit(5, 1))>>])

\* ------------------------------------------------------------ food objects
\* An object a loader created.  Its identity is (source, uid, serial): the
\* serial counts the objects created of that (source, uid) so far, so two
\* loads of the same record are two objects.
FoodObject(serial, s, uid) == [serial |-> serial, source |-> s, uid |-> uid]

\* Python's None.
NoneObj == FoodObject(0, "", 0)

\* The fields of a food object.
FoodData(obj) == IF obj = NoneObj THEN NoFood ELSE StoredFoods[obj.uid]

\* What a loader hands back: a value, or the exception it raised.
Returned(obj) == [raised |-> "", value |-> obj]
Raised(exc) == [raised |-> exc, value |-> NoneObj]

\* userFoods.loadUserFood: the food of the file, and None when opening or
\* parsing the file fails in any way.
LoadUserFood(index, serial) ==
    IF index \in DOMAIN StoredFoods
    THEN Returned(FoodObject(serial, USER, index))
    ELSE Returned(NoneObj)

\* ------------------------------------------------------------- FoodManager
VARIABLES
    foodSources,   \* FoodManager.__foodSources: source -> its wrapper's __foods
    created,       \* per (source, id): the food objects created so far
    loads,         \* per (source, id): loader calls that returned since addSource
    firstReturned, \* per (source, id): what getFood returned first since addSource
    lastCall       \* the last getFood call made on the manager and how it ended

\* A call's outcome: the manager's sources and the objects created after
\* it, the exception raised ("" when none) with its message, the value
\* returned, how many loader calls were made during it and how many of them
\* returned.
Outcome(fs, made, exc, msg, val, invoked, loaded) ==
    [fs |-> fs, made |-> made, raised |-> exc, message |-> msg, value |-> val,
     invoked |-> invoked, loaded |-> loaded]

\* The loader a wrapper calls for its kind of source.  crdbFoods defines no
\* loadCRDBFood and usdaFoods no loadUsdaFood, so the call of either raises
\* AttributeError before anything is loaded.
Loader(s, index, serial) ==
    IF s = USER THEN LoadUserFood(index, serial)
    ELSE Raised("AttributeError")

\* The loader call of a wrapper and the store of what it returned.
LoadAndStore(fs, made, s, index) ==
    LET serial == made[s][index] + 1
        r == Loader(s, index, serial)
    IN  IF r.raised # ""
        THEN Outcome(fs, made, r.raised, << >>, NoneObj, 0, 0)
        ELSE Outcome([fs EXCEPT ![s] = (index :> r.value) @@ @],
                     IF r.value = NoneObj THEN made
                     ELSE [made EXCEPT ![s][index] = serial],
                     "", << >>, r.value, 1, 1)

\* A wrapper that never consults its cache and loads on every call.
WrapperGetFoodNoCache(fs, made, s, index) == LoadAndStore(fs, made, s, index)

\* _FoodSourceWrapper.getFood on the wrapper of source s.
WrapperGetFood(fs, made, s, index) ==
    IF index \in DOMAIN fs[s]
    THEN Outcome(fs, made, "", << >>, fs[s][index], 0, 0)
    ELSE LoadAndStore(fs, made, s, index)

\* The text of the MessageError FoodManager.__getSource raises.
NotLoadedMessage(s) ==
    <<"Food Source ", s, " is not loaded. Please enable it in preferences to use. ">>

\* A manager that hands an inactive source to the wrapper code all the same:
\* the source is looked up, found missing, and loaded from.
ManagerGetFoodUnchecked(fs, made, s, index) ==
    IF s \notin DOMAIN fs
    THEN WrapperGetFood((s :> << >>) @@ fs, made, s, index)
    ELSE WrapperGetFood(fs, made, s, index)

\* FoodManager.getFood: __getSource, then the wrapper's getFood.
ManagerGetFood(fs, made, s, index) ==
    IF s \notin DOMAIN fs
    THEN Outcome(fs, made, "MessageError", NotLoadedMessage(s), NoneObj, 0, 0)
    ELSE WrapperGetFood(fs, made, s, index)

\* The objects of one (source, id) are capped: a call that would create one
\* too many is not taken.
WithinObjects(r) == \A s \in Sources, i \in FoodIds : r.made[s][i] <= MaxObjects

NoCall == [op |-> "", source |-> "", index |-> 0, raised |-> "",
           message |-> << >>, value |-> NoneObj, invoked |-> 0, loaded |-> 0]

Call(op, s, index, r) ==
    [op |-> op, source |-> s, index |-> index, raised |-> r.raised,
     message |-> r.message, value |-> r.value, invoked |-> r.invoked,
     loaded |-> r.loaded]

\* The bookkeeping of one getFood outcome.
CountLoad(ld, s, index, r) == [ld EXCEPT ![s][index] = @ + r.loaded]

NoteFirst(fr, s, index, r) ==
    IF r.raised = "" /\ ~fr[s][index].seen
    THEN [fr EXCEPT ![s][index] = [seen |-> TRUE, value |-> r.value]]
    ELSE fr

NothingLoaded == [i \in FoodIds |-> 0]
NothingReturned == [i \in FoodIds |-> [seen |-> FALSE, value |-> NoneObj]]

\* The index file a wrapper reads when it is created.
IndexFiles == {"missing", "empty", "lines"}

\* _FoodSourceWrapper.__init__ reads the source's index: a missing file
\* raises, and usdaFoods.__readIndex raises on its first line (it names
\* FoodSource.USDA, which FoodSource does not define).
WrapperInitRaises(s, indexFile) ==
    \/ indexFile = "missing"
    \/ s \notin {USER, CRDB} /\ indexFile = "lines"

\* ----------------------------------------------------------------- UserDay
Serving(s, f, g, ms, ml) ==
    [source |-> s, food |-> f, grams |-> g, measure |-> ms, meal |-> ml]

\* The servings the callers build days from (the date of a serving is never
\* read by UserDay and is left out).
ServingPool ==
    { Serving(USER, 1, FLit(100, 1), "", 0),
      Serving(USER, 2, FLit(100, 1), "", 1),
      Serving(USER, 2, FLit(50, 1), "cup", 1),
      Serving(USER, 3, FLit(200, 1), "", 2),
      Serving(USER, 1, FLit(32, 1), "tbsp", 0),
      Serving(USER, 4, FLit(100, 1), "", 0),
      Serving(USER, 3, FLit(100, 1), "cup", 1),
      Serving(CRDB, 1, FLit(100, 1), "", 1) }

\* The lists of at most n members of S.
RECURSIVE SeqsUpTo(_, _)
SeqsUpTo(S, n) ==
    IF n = 0 THEN {<< >>}
    ELSE LET shorter == SeqsUpTo(S, n - 1)
         IN  shorter \cup {Append(q, x) : q \in shorter, x \in S}

ServingLists == SeqsUpTo(ServingPool, MaxServings)

SetMin(S) == CHOOSE x \in S : \A y \in S : x <= y
SetMax(S) == CHOOSE x \in S : \A y \in S : x >= y

\* Python's sorted() of a set of ints.
RECURSIVE Sorted(_)
Sorted(S) == IF S = {} THEN << >> ELSE <<SetMin(S)>> \o Sorted(S \ {SetMin(S)})

\* A variant that forgets the division by 100.
NutrientDictPerGram(food, grams) ==
    LET rows == food.nutrients
        names == {rows[i].name : i \in DOMAIN rows}
        last(nm) == rows[SetMax({i \in DOMAIN rows : rows[i].name = nm})]
    IN  [nm \in names |-> FMul(last(nm).amount, grams)]

\* Food.nutrientDict / UserFood.nutrientDict: name -> amount * (grams / 100);
\* a dict comprehension, so a later row of the same name replaces an earlier.
NutrientDict(food, grams) ==
    LET mult == FDivInt(grams, 100)
        rows == food.nutrients
        names == {rows[i].name : i \in DOMAIN rows}
        last(nm) == rows[SetMax({i \in DOMAIN rows : rows[i].name = nm})]
    IN  [nm \in names |-> FMul(last(nm).amount, mult)]

\* NutrientInfos.nutrientDictToTuple: one entry per schema nutrient, 0 for a
\* name the dict lacks.
NutrientDictToTuple(nutrientDict) ==
    [i \in 1..Len(Nutrients) |->
        IF Nutrients[i] \in DOMAIN nutrientDict THEN nutrientDict[Nutrients[i]] ELSE 0]

\* Food.getMeasureByName / UserFood.getMeasureByName.
GetMeasureByName(food, name) ==
    IF name = "" THEN [raised |-> "", value |-> GRAM]
    ELSE LET hits == {i \in DOMAIN food.measures : food.measures[i].description = name}
         IN  IF hits = {} THEN [raised |-> "IndexError", value |-> GRAM]
             ELSE [raised |-> "", value |-> food.measures[SetMin(hits)]]

\* tuple(sum(a) for a in zip(*tuples)): zip stops at the shortest tuple and
\* yields nothing when there is no tuple at all.
ZipSum(tuples) ==
    IF tuples = << >> THEN << >>
    ELSE LET width == SetMin({Len(tuples[k]) : k \in DOMAIN tuples})
         IN  [i \in 1..width |-> PySum([k \in DOMAIN tuples |-> tuples[k][i]])]

\* A variant of the day total that leaves the last tuple out.
DayNutritionButLast(servingTuples) ==
    IF servingTuples = << >> THEN << >>
    ELSE LET width == SetMin({Len(servingTuples[k]) : k \in DOMAIN servingTuples})
         IN  [i \in 1..width |->
                PySum([k \in 1..(Len(servingTuples) - 1) |-> servingTuples[k][i]])]

\* The day total of UserDay.__build.
DayNutrition(servingTuples) == ZipSum(servingTuples)

\* A variant of the meal totals that keeps the first tuple of each meal only.
MealNutritionFirstOnly(mealTuples) ==
    [m \in DOMAIN mealTuples |-> mealTuples[m][1]]

\* The meal totals of UserDay.__build.
MealNutrition(mealTuples) ==
    [m \in DOMAIN mealTuples |-> ZipSum(mealTuples[m])]

\* A variant that files the servings of meal 0 under a meal as well.
AddToMealAlways(acc, s, nutrientTuple) ==
    [acc EXCEPT
        !.meals = @ \cup {s.meal},
        !.mealTuples =
            IF s.meal \in DOMAIN @
            THEN [@ EXCEPT ![s.meal] = Append(@, nutrientTuple)]
            ELSE (s.meal :> <<nutrientTuple>>) @@ @,
        !.servingsByMeal =
            IF s.meal \in DOMAIN @
            THEN [@ EXCEPT ![s.meal] = Append(@, s)]
            ELSE (s.meal :> <<s>>) @@ @]

\* The meal bookkeeping of one serving in UserDay.__build.
AddToMeal(acc, s, nutrientTuple) ==
    IF s.meal # 0
    THEN [acc EXCEPT
            !.meals = @ \cup {s.meal},
            !.mealTuples =
                IF s.meal \in DOMAIN @
                THEN [@ EXCEPT ![s.meal] = Append(@, nutrientTuple)]
                ELSE (s.meal :> <<nutrientTuple>>) @@ @,
            !.servingsByMeal =
                IF s.meal \in DOMAIN @
                THEN [@ EXCEPT ![s.meal] = Append(@, s)]
                ELSE (s.meal :> <<s>>) @@ @]
    ELSE acc

\* What __build holds before its loop: the manager as it finds it, and its
\* own lists empty.
BuildStart(fs, made, ld, fr) ==
    [fs |-> fs, made |-> made, loads |-> ld, first |-> fr, raised |-> "",
     message |-> << >>, loaded |-> 0,
     foods |-> << >>, servingSize |-> << >>, servingTuples |-> << >>,
     meals |-> {}, mealTuples |-> << >>, servingsByMeal |-> << >>]

\* One turn of the loop of UserDay.__build, for serving s.  An exception
\* ends the build; what the manager cached before it stays cached.
BuildServing(acc, s) ==
    IF acc.raised # "" THEN acc
    ELSE
    LET r == ManagerGetFood(acc.fs, acc.made, s.source, s.food)
        got == [acc EXCEPT !.fs = r.fs, !.made = r.made,
                           !.loads = CountLoad(@, s.source, s.food, r),
                           !.first = NoteFirst(@, s.source, s.food, r),
                           !.loaded = @ + r.loaded]
    IN  IF r.raised # ""
        THEN [got EXCEPT !.raised = r.raised, !.message = r.message]
        ELSE IF r.value = NoneObj
        THEN [got EXCEPT !.raised = "AttributeError"]
        ELSE
        LET food == FoodData(r.value)
            nutrientTuple == NutrientDictToTuple(NutrientDict(food, s.grams))
            measure == GetMeasureByName(food, s.measure)
        IN  IF measure.raised # ""
            THEN [got EXCEPT !.raised = measure.raised]
            ELSE IF measure.value.grams = 0
            THEN [got EXCEPT !.raised = "ZeroDivisionError"]
            ELSE AddToMeal(
                   [got EXCEPT
                      !.foods = Append(@, r.value),
                      !.servingTuples = Append(@, nutrientTuple),
                      !.servingSize = Append(@, FDiv(s.grams, measure.value.grams))],
                   s, nutrientTuple)

\* The loop of UserDay.__build: one turn per serving, in list order.
RECURSIVE BuildLoop(_, _)
BuildLoop(acc, servings) ==
    IF servings = << >> THEN acc
    ELSE BuildServing(BuildLoop(acc, SubSeq(servings, 1, Len(servings) - 1)),
                      servings[Len(servings)])

\* The UserDay object UserDay.__init__ leaves behind.
UserDayOf(servings, acc) ==
    [built |-> TRUE,
     servings |-> servings,
     foods |-> acc.foods,
     servingSize |-> acc.servingSize,
     meals |-> Sorted(acc.meals),
     servingsByMeal |-> acc.servingsByMeal,
     nutrition |-> DayNutrition(acc.servingTuples),
     mealNutrition |-> MealNutrition(acc.mealTuples),
     servingTuples |-> acc.servingTuples]

NoDay ==
    [built |-> FALSE, servings |-> << >>, foods |-> << >>, servingSize |-> << >>,
     meals |-> << >>, servingsByMeal |-> << >>, nutrition |-> << >>,
     mealNutrition |-> << >>, servingTuples |-> << >>]

\* ---------------------------------------------------------- usdaFoodLoader
\* Strings are TLA+ strings; the owner and the brand of a brand row, which
\* the loader compares letter by letter, are sequences of one-letter strings.
RECURSIVE Str(_)
Str(cs) == IF cs = << >> THEN "" ELSE cs[1] \o Str(Tail(cs))

\* The upper-case letters and, at the same positions, their lower-case ones.
UpperLetters ==
    <<"A", "B", "C", "D", "E", "F", "G", "H", "I", "J", "K", "L", "M",
      "N", "O", "P", "Q", "R", "S", "T", "U", "V", "W", "X", "Y", "Z">>

LowerLetters ==
    <<"a", "b", "c", "d", "e", "f", "g", "h", "i", "j", "k", "l", "m",
      "n", "o", "p", "q", "r", "s", "t", "u", "v", "w", "x", "y", "z">>

\* str.lower() of one letter.
LowerLetter(c) ==
    IF \E k \in DOMAIN UpperLetters : UpperLetters[k] = c
    THEN LowerLetters[CHOOSE k \in DOMAIN UpperLetters : UpperLetters[k] = c]
    ELSE c

Lower(cs) == [k \in DOMAIN cs |-> LowerLetter(cs[k])]

\* sep.join(parts)
RECURSIVE Join(_, _)
Join(parts, sep) ==
    IF parts = << >> THEN ""
    ELSE IF Len(parts) = 1 THEN parts[1]
    ELSE parts[1] \o sep \o Join(Tail(parts), sep)

\* difflib.SequenceMatcher.find_longest_match on a[alo..ahi], b[blo..bhi]
\* (no junk): the longest common block, of those the one that starts
\* earliest in a, of those the one that starts earliest in b.
LongestMatch(a, b, alo, ahi, blo, bhi) ==
    LET blocks == {m \in (alo..ahi) \X (blo..bhi) \X (1..(ahi - alo + 1)) :
                      /\ m[1] + m[3] - 1 <= ahi
                      /\ m[2] + m[3] - 1 <= bhi
                      /\ \A h \in 0..(m[3] - 1) : a[m[1] + h] = b[m[2] + h]}
        Better(m, n) == \/ m[3] > n[3]
                        \/ m[3] = n[3] /\ m[1] < n[1]
                        \/ m[3] = n[3] /\ m[1] = n[1] /\ m[2] <= n[2]
    IN  IF blocks = {} THEN <<alo, blo, 0>>
        ELSE CHOOSE m \in blocks : \A n \in blocks : Better(m, n)

\* The total size of SequenceMatcher.get_matching_blocks: the longest
\* match, then the same to its left and to its right.
RECURSIVE MatchCount(_, _, _, _, _, _)
MatchCount(a, b, alo, ahi, blo, bhi) ==
    IF alo > ahi \/ blo > bhi THEN 0
    ELSE LET m == LongestMatch(a, b, alo, ahi, blo, bhi)
         IN  IF m[3] = 0 THEN 0
             ELSE m[3]
                  + MatchCount(a, b, alo, m[1] - 1, blo, m[2] - 1)
                  + MatchCount(a, b, m[1] + m[3], ahi, m[2] + m[3], bhi)

\* SequenceMatcher(None, a, b).ratio() < .5, the ratio being 2.0 * M / T.
RatioBelowHalf(a, b) ==
    4 * MatchCount(a, b, 1, Len(a), 1, Len(b)) < Len(a) + Len(b)

\* Python's None where a number or a record is optional, and a number that
\* is there.
None == [none |-> TRUE]

Some(x) == [value |-> x]

\* The records of the CSV files.
CsvMeasure(pid, name) == [pid |-> pid, name |-> name]

CsvPortion(fid, amount, measureId, description, modifier, grams) ==
    [fid |-> fid, amount |-> amount, measureId |-> measureId,
     description |-> description, modifier |-> modifier, grams |-> grams]

CsvFood(foodSource, fid, legacyId, name) ==
    [foodSource |-> foodSource, fid |-> fid, legacyId |-> legacyId, name |-> name]

CsvFoodNutrient(fid, nid, amount) == [fid |-> fid, nid |-> nid, amount |-> amount]

CsvConversion(protein, fat, carb) == [protein |-> protein, fat |-> fat, carb |-> carb]

CsvBrandedFood(fid, owner, brand, subbrand, measure) ==
    [fid |-> fid, owner |-> owner, brand |-> brand, subbrand |-> subbrand,
     measure |-> measure]

\* The members of a list that satisfy nothing but membership of a set of
\* positions, in list order.
RECURSIVE Pick(_, _)
Pick(xs, keep) ==
    IF xs = << >> THEN << >>
    ELSE Pick(SubSeq(xs, 1, Len(xs) - 1), keep)
         \o (IF Len(xs) \in keep THEN <<xs[Len(xs)]>> ELSE << >>)

\* A variant that leaves the modifier out of the description.
PortionDescriptionNoModifier(por, measureDict) ==
    Join((IF por.measureId # 9999 THEN <<measureDict[por.measureId]>> ELSE << >>)
         \o (IF por.description # "" THEN <<por.description>> ELSE << >>), " ")

\* The description generateMeasures gives a portion: the measure-unit name
\* (unless the id is 9999), the description and the modifier, the latter
\* two when not empty, joined by single spaces.
PortionDescription(por, measureDict) ==
    Join((IF por.measureId # 9999 THEN <<measureDict[por.measureId]>> ELSE << >>)
         \o (IF por.description # "" THEN <<por.description>> ELSE << >>)
         \o (IF por.modifier # "" THEN <<por.modifier>> ELSE << >>), " ")

\* generateMeasures: the measures of each food, in the order of its portion
\* rows; a portion whose measure id the table lacks raises KeyError.
GenerateMeasuresOf(portions, csvMeasures) ==
    LET measureDict ==
            [pid \in {csvMeasures[k].pid : k \in DOMAIN csvMeasures} |->
                csvMeasures[SetMax({k \in DOMAIN csvMeasures :
                                       csvMeasures[k].pid = pid})].name]
        fids == {portions[k].fid : k \in DOMAIN portions}
        unknown == \E k \in DOMAIN portions :
                      /\ portions[k].measureId # 9999
                      /\ portions[k].measureId \notin DOMAIN measureDict
        measureOf(por) == Measure(por.grams, por.amount,
                                  PortionDescription(por, measureDict))
        listOf(fid) ==
            LET pors == Pick(portions, {k \in DOMAIN portions : portions[k].fid = fid})
            IN  [k \in DOMAIN pors |-> measureOf(pors[k])]
    IN  IF unknown THEN [raised |-> "KeyError", value |-> << >>]
        ELSE [raised |-> "", value |-> [fid \in fids |-> listOf(fid)]]

\* A canonical nutrient of the schema handed to the loader.
NutrientInfo(name, usdaIds) == [name |-> name, usdaIds |-> usdaIds]

\* Food.nutrientValueByName: the first row of the name, 0.0 without one.
NutrientValueByName(nutrients, name) ==
    LET rows == {k \in DOMAIN nutrients : nutrients[k].name = name}
    IN  IF rows = {} THEN 0 ELSE nutrients[SetMin(rows)].amount

\* Food.setNutrientByName: the first row of the name is overwritten; without
\* one a row is appended.
SetNutrientByName(nutrients, name, amount) ==
    LET rows == {k \in DOMAIN nutrients : nutrients[k].name = name}
    IN  IF rows = {} THEN Append(nutrients, FoodNutrient(name, amount))
        ELSE [nutrients EXCEPT ![SetMin(rows)].amount = amount]

\* extractValue of _fixOmegaFats: the amount of the first raw row of the id.
ExtractValue(foodNuts, nid) ==
    LET rows == {k \in DOMAIN foodNuts : foodNuts[k].nid = nid}
    IN  IF rows = {} THEN None ELSE Some(foodNuts[SetMin(rows)].amount)

\* A variant of the correction that never subtracts the 18:3 n-6 amount.
FixOmegaFatsNoSubtract(nutrients, foodNuts) ==
    LET w3a == NutrientValueByName(nutrients, "Omega-3")
        w6a == NutrientValueByName(nutrients, "Omega-6")
        n1270 == ExtractValue(foodNuts, 1270)
        n1404 == ExtractValue(foodNuts, 1404)
        n1269 == ExtractValue(foodNuts, 1269)
        n1316 == ExtractValue(foodNuts, 1316)
        fix3 == n1270 # None /\ n1404 = None
        fix6 == n1269 # None /\ n1316 = None
        after3 == IF fix3
                  THEN SetNutrientByName(nutrients, "Omega-3", FAdd(w3a, n1270.value))
                  ELSE nutrients
        after6 == IF fix6 THEN SetNutrientByName(after3, "Omega-6", FAdd(w6a, n1269.value))
                  ELSE after3
    IN  [nutrients |-> after6, changed |-> fix3 \/ fix6]

\* A variant of the correction that adds the 18:2 amount also when the n-6
\* sub-nutrient has a row.
FixOmegaFatsAlwaysSix(nutrients, foodNuts) ==
    LET w3a == NutrientValueByName(nutrients, "Omega-3")
        w6a == NutrientValueByName(nutrients, "Omega-6")
        n1270 == ExtractValue(foodNuts, 1270)
        n1321 == ExtractValue(foodNuts, 1321)
        n1404 == ExtractValue(foodNuts, 1404)
        n1269 == ExtractValue(foodNuts, 1269)
        fix3 == n1270 # None /\ n1404 = None
        fix6 == n1269 # None
        w3 == IF n1321 # None THEN FSub(FAdd(w3a, n1270.value), n1321.value)
              ELSE FAdd(w3a, n1270.value)
        after3 == IF fix3 THEN SetNutrientByName(nutrients, "Omega-3", w3)
                  ELSE nutrients
        after6 == IF fix6 THEN SetNutrientByName(after3, "Omega-6", FAdd(w6a, n1269.value))
                  ELSE after3
    IN  [nutrients |-> after6, changed |-> fix3 \/ fix6]

\* _fixOmegaFats: the nutrient rows after it and whether it changed them.
FixOmegaFats(nutrients, foodNuts) ==
    LET w3a == NutrientValueByName(nutrients, "Omega-3")
        w6a == NutrientValueByName(nutrients, "Omega-6")
        n1270 == ExtractValue(foodNuts, 1270)
        n1321 == ExtractValue(foodNuts, 1321)
        n1404 == ExtractValue(foodNuts, 1404)
        n1269 == ExtractValue(foodNuts, 1269)
        n1316 == ExtractValue(foodNuts, 1316)
        fix3 == n1270 # None /\ n1404 = None
        fix6 == n1269 # None /\ n1316 = None
        w3 == IF n1321 # None THEN FSub(FAdd(w3a, n1270.value), n1321.value)
              ELSE FAdd(w3a, n1270.value)
        after3 == IF fix3 THEN SetNutrientByName(nutrients, "Omega-3", w3)
                  ELSE nutrients
        after6 == IF fix6 THEN SetNutrientByName(after3, "Omega-6", FAdd(w6a, n1269.value))
                  ELSE after3
    IN  [nutrients |-> after6, changed |-> fix3 \/ fix6]

\* NutrientInfos.indexOfName reads self.__nutIndexDict, which inside the
\* class means _NutrientInfos__nutIndexDict, while __init__ stored the dict
\* under the plain name "__nutIndexDict": the read raises AttributeError.
IndexOfName(name) == Raised("AttributeError")

\* A variant that gives every schema nutrient an entry, rows or no rows.
RECURSIVE NutListDense(_, _)
NutListDense(schema, foodNuts) ==
    IF schema = << >> THEN << >>
    ELSE LET ni == schema[Len(schema)]
             entries == Pick(foodNuts, {k \in DOMAIN foodNuts :
                                           foodNuts[k].nid \in ni.usdaIds})
             amounts == [k \in DOMAIN entries |-> entries[k].amount]
         IN  NutListDense(SubSeq(schema, 1, Len(schema) - 1), foodNuts)
             \o <<FoodNutrient(ni.name, PySum(amounts))>>

\* A variant that takes the amount of the first matching row for the sum.
RECURSIVE NutListFirstRow(_, _)
NutListFirstRow(schema, foodNuts) ==
    IF schema = << >> THEN << >>
    ELSE LET ni == schema[Len(schema)]
             entries == Pick(foodNuts, {k \in DOMAIN foodNuts :
                                           foodNuts[k].nid \in ni.usdaIds})
         IN  NutListFirstRow(SubSeq(schema, 1, Len(schema) - 1), foodNuts)
             \o (IF entries # << >>
                 THEN <<FoodNutrient(ni.name, entries[1].amount)>> ELSE << >>)

\* The nutrient list generateFoods builds for a food: for each schema
\* nutrient with raw rows of its usda ids, in schema order, the sum of the
\* amounts of those rows.
RECURSIVE NutList(_, _)
NutList(schema, foodNuts) ==
    IF schema = << >> THEN << >>
    ELSE LET ni == schema[Len(schema)]
             entries == Pick(foodNuts, {k \in DOMAIN foodNuts :
                                           foodNuts[k].nid \in ni.usdaIds})
             amounts == [k \in DOMAIN entries |-> entries[k].amount]
         IN  NutList(SubSeq(schema, 1, Len(schema) - 1), foodNuts)
             \o (IF entries # << >>
                 THEN <<FoodNutrient(ni.name, PySum(amounts))>> ELSE << >>)

\* A variant that never appends the subbrand.
BrandedNameNoSubbrand(name, bi) ==
    LET makers ==
            IF bi.owner # << >> /\ bi.brand # << >>
            THEN IF RatioBelowHalf(Lower(bi.owner), Lower(bi.brand))
                 THEN <<Str(bi.owner), Str(bi.brand)>>
                 ELSE <<Str(bi.brand)>>
            ELSE IF bi.owner # << >> THEN <<Str(bi.owner)>>
            ELSE IF bi.brand # << >> THEN <<Str(bi.brand)>>
            ELSE << >>
    IN  Join(<<name>> \o makers, ",")

\* The name generateFoods gives a food that has a brand row.
BrandedName(name, bi) ==
    LET makers ==
            IF bi.owner # << >> /\ bi.brand # << >>
            THEN IF RatioBelowHalf(Lower(bi.owner), Lower(bi.brand))
                 THEN <<Str(bi.owner), Str(bi.brand)>>
                 ELSE <<Str(bi.brand)>>
            ELSE IF bi.owner # << >> THEN <<Str(bi.owner)>>
            ELSE IF bi.brand # << >> THEN <<Str(bi.brand)>>
            ELSE << >>
        sub == IF bi.subbrand # "" THEN <<bi.subbrand>> ELSE << >>
    IN  Join(<<name>> \o makers \o sub, ",")

\* A conversion factor handed to Food: None becomes the default of the field.
Factor(c, field, default) ==
    IF c = None THEN default
    ELSE IF c[field] = None THEN default ELSE c[field].value

\* One turn of the loop of generateFoods.  The list m is the list of the
\* measures map itself when the map has a non-empty list for the food, so
\* what is appended to and inserted in m is appended to and inserted in the
\* map; the Food keeps a copy of m as it is when the Food is constructed.
GenerateFood(acc, csvFood, conversion, schema, nutrients, brandInfo) ==
    IF acc.raised # "" THEN acc
    ELSE
    LET fid == csvFood.fid
        foodNuts == Pick(nutrients, {k \in DOMAIN nutrients : nutrients[k].fid = fid})
        nutList == NutList(schema, foodNuts)
        brands == {k \in DOMAIN brandInfo : brandInfo[k].fid = fid}
        bi == IF brands = {} THEN None ELSE brandInfo[SetMax(brands)]
        inMap == fid \in DOMAIN acc.measures /\ acc.measures[fid] # << >>
        m0 == IF inMap THEN acc.measures[fid] ELSE << >>
        m1 == IF bi # None /\ bi.measure # None THEN Append(m0, bi.measure) ELSE m0
        m == IF \E k \in DOMAIN m1 : m1[k] = GRAM THEN m1 ELSE <<GRAM>> \o m1
        c == IF fid \in DOMAIN conversion THEN conversion[fid] ELSE None
        fixed == FixOmegaFats(nutList, foodNuts)
        food == [name |-> IF bi # None THEN BrandedName(csvFood.name, bi)
                          ELSE csvFood.name,
                 measures |-> m,
                 nutrients |-> fixed.nutrients,
                 foodSource |-> csvFood.foodSource,
                 uid |-> fid,
                 legacyUID |-> csvFood.legacyId,
                 pCF |-> Factor(c, "protein", FLit(4, 1)),
                 lCF |-> Factor(c, "fat", FLit(9, 1)),
                 cCF |-> Factor(c, "carb", FLit(4, 1)),
                 comments |-> << >>]
        measuresAfter == IF inMap THEN [acc.measures EXCEPT ![fid] = m]
                         ELSE acc.measures
    IN  IF fixed.changed /\ IndexOfName(fixed.nutrients[1].name).raised # ""
        THEN [acc EXCEPT !.measures = measuresAfter,
                         !.raised = IndexOfName(fixed.nutrients[1].name).raised]
        ELSE [acc EXCEPT !.measures = measuresAfter,
                         !.foods = Append(@, food)]

\* generateFoods: the foods it returns (or the exception that ends it) and
\* the measures map as the call leaves it.
RECURSIVE GenerateFoodsOf(_, _, _, _, _, _)
GenerateFoodsOf(csvFoods, measures, conversion, schema, nutrients, brandInfo) ==
    IF csvFoods = << >>
    THEN [raised |-> "", foods |-> << >>, measures |-> measures]
    ELSE GenerateFood(
            GenerateFoodsOf(SubSeq(csvFoods, 1, Len(csvFoods) - 1), measures,
                            conversion, schema, nutrients, brandInfo),
            csvFoods[Len(csvFoods)], conversion, schema, nutrients, brandInfo)

\* UserFood.model_post_init: GRAM is put first when the list lacks it.
ModelPostInit(measures) ==
    IF \E k \in DOMAIN measures : measures[k] = GRAM THEN measures
    ELSE <<GRAM>> \o measures

\* What the conversion is run on: the measure-unit table, portion rows,
\* food rows, brand rows, raw nutrient rows, conversion factors and schema.
CsvMeasures == <<CsvMeasure(1000, "cup"), CsvMeasure(1001, "tbsp")>>

PortionPool ==
    { CsvPortion(1, FLit(1, 1), 1000, "", "chopped", FLit(24, 1)),
      CsvPortion(1, FLit(1, 1), 9999, "g", "", FLit(1, 1)),
      CsvPortion(2, FLit(2, 1), 1001, "", "", FLit(30, 1)),
      CsvPortion(2, FLit(1, 2), 9999, "slice", "thin", FLit(14, 1)),
      CsvPortion(1, FLit(1, 1), 1002, "", "", FLit(5, 1)) }

PortionLists == SeqsUpTo(PortionPool, MaxRows)

FoodPool ==
    { CsvFood("branded_food", 1, None, "Cheese"),
      CsvFood("branded_food", 2, Some(9001), "Milk") }

CsvFoodLists == SeqsUpTo(FoodPool, MaxRows)

AcmeBrand ==
    CsvBrandedFood(1, <<"A", "c", "m", "e">>, <<"A", "C", "M", "E", " ", "C", "o">>,
                   "", Measure(FLit(28, 1), 0, "labeled serving"))

KoBrand == CsvBrandedFood(1, <<"K", "o">>, <<"D", "a", "b">>, "Lite", None)

CheeseFactors == (1 :> CsvConversion(Some(FLit(7, 2)), None, Some(FLit(4, 1))))

\* The raw nutrient rows, conversion factors and brand rows of the CSV
\* directories the conversion is run on.
CsvDir(nutrients, conversion, brandInfo) ==
    [nutrients |-> nutrients, conversion |-> conversion, brandInfo |-> brandInfo]

CsvDirs ==
    { CsvDir(<< >>, << >>, << >>),
      CsvDir(<<CsvFoodNutrient(1, 1003, FLit(10, 1)), CsvFoodNutrient(1, 1004, FLit(5, 1)),
               CsvFoodNutrient(2, 1003, FLit(3, 1)), CsvFoodNutrient(1, 1003, FLit(1, 2))>>,
             CheeseFactors, <<AcmeBrand>>),
      CsvDir(<<CsvFoodNutrient(2, 1003, FLit(10, 1)), CsvFoodNutrient(2, 1270, FLit(2, 1))>>,
             << >>, <<KoBrand>>),
      CsvDir(<<CsvFoodNutrient(1, 1404, FLit(1, 1)), CsvFoodNutrient(1, 1270, FLit(2, 1)),
               CsvFoodNutrient(2, 1269, FLit(3, 1)), CsvFoodNutrient(2, 1316, FLit(1, 1)),
               CsvFoodNutrient(2, 1004, 0)>>,
             CheeseFactors, <<AcmeBrand, KoBrand>>) }

LoaderSchema ==
    <<NutrientInfo("Protein", {1003}), NutrientInfo("Fat", {1004}),
      NutrientInfo("Omega-3", {1404, 1278}), NutrientInfo("Omega-6", {1316})>>

\* The measure lists user food files hold.
UserMeasureLists ==
    SeqsUpTo({GRAM, Measure(FLit(16, 1), FLit(1, 1), "tbsp")}, MaxRows)

\* Nothing generated yet, and no UserFood constructed yet.
NoFoods ==
    [called |-> FALSE, raised |-> "", foods |-> << >>, nutrients |-> << >>,
     brandInfo |-> << >>]

NoUserFood == [built |-> FALSE, measures |-> << >>]

VARIABLES
    day,     \* the UserDay object last constructed
    other,   \* a second UserDay, built from the same servings in another order
    threads, \* per thread: where it stands in getFood and how its last call ended
    edits,   \* the changes callers made to serving lists handed out by servings()
    measuresMap, \* the measures map of a conversion run: food id -> measure list
    newFoods,    \* what the last generateFoods call of the run returned
    userFood     \* the UserFood last constructed

VARIABLES
    omega,       \* a Food that _fixOmegaFats is applied to, and its raw rows
    nextId,      \* _getNextId.nid, the counter of the process
    schemas,     \* what the generateNutrientInfo calls of the process gave
    written,     \* the index file last written and what readIndex made of it
    servingsOut, \* the last convertServings call: its arguments and its outcome
    conversionRun, \* the last convertUsdaFoods run: its inputs and its files
    measuresRun  \* the last generateMeasures call made on its own, and its outcome

toolVars == <<omega, nextId, schemas, written, servingsOut, conversionRun,
              measuresRun>>

loaderVars == <<measuresMap, newFoods, userFood, toolVars>>

\* No Food handed to _fixOmegaFats yet.
NoOmega == [built |-> FALSE, raw |-> << >>, before |-> << >>, nutrients |-> << >>,
            once |-> << >>, applied |-> 0, changed |-> FALSE]

\* Nothing written, converted or run yet.
NoRun == [called |-> FALSE]

vars == <<foodSources, created, loads, firstReturned, lastCall, day, other,
          threads, edits, loaderVars>>

Threads == 1..MaxThreads

\* A thread outside getFood that has not called it yet.
IdleThread ==
    [pc |-> "idle", source |-> "", index |-> 0, food |-> NoneObj,
     called |-> FALSE, raised |-> "", value |-> NoneObj]

\* --------------------------------------------------------------- the steps
Init ==
    /\ foodSources = << >>
    /\ created = [s \in Sources |-> [i \in FoodIds |-> 0]]
    /\ loads = [s \in Sources |-> NothingLoaded]
    /\ firstReturned = [s \in Sources |-> NothingReturned]
    /\ lastCall = NoCall
    /\ day = NoDay
    /\ other = NoDay
    /\ threads = [t \in Threads |-> IdleThread]
    /\ edits = 0
    /\ measuresMap = << >>
    /\ newFoods = NoFoods
    /\ userFood = NoUserFood
    /\ omega = NoOmega
    /\ nextId = 0
    /\ schemas = << >>
    /\ written = NoRun
    /\ servingsOut = NoRun
    /\ conversionRun = NoRun
    /\ measuresRun = NoRun

\* A manager whose addSource keeps the wrapper of a source that is already
\* active, cache and all.
AddSourceKeepCache(s, indexFile) ==
    /\ IF WrapperInitRaises(s, indexFile) \/ s \in DOMAIN foodSources
       THEN UNCHANGED <<foodSources, loads, firstReturned>>
       ELSE /\ foodSources' = (s :> << >>) @@ foodSources
            /\ loads' = [loads EXCEPT ![s] = NothingLoaded]
            /\ firstReturned' = [firstReturned EXCEPT ![s] = NothingReturned]
    /\ lastCall' = NoCall
    /\ UNCHANGED <<created, day, other, threads, edits, loaderVars>>

\* FoodManager.addSource(s): a new wrapper, with an empty __foods, replaces
\* whatever the source had; a wrapper that cannot read its index raises and
\* nothing is installed.
AddSource(s, indexFile) ==
    /\ IF WrapperInitRaises(s, indexFile)
       THEN UNCHANGED <<foodSources, loads, firstReturned>>
       ELSE /\ foodSources' = (s :> << >>) @@ foodSources
            /\ loads' = [loads EXCEPT ![s] = NothingLoaded]
            /\ firstReturned' = [firstReturned EXCEPT ![s] = NothingReturned]
    /\ lastCall' = NoCall
    /\ UNCHANGED <<created, day, other, threads, edits, loaderVars>>

\* FoodManager.removeSource(s): pop(source, None).
RemoveSource(s) ==
    /\ foodSources' = [t \in DOMAIN foodSources \ {s} |-> foodSources[t]]
    /\ lastCall' = NoCall
    /\ UNCHANGED <<created, loads, firstReturned, day, other, threads, edits, loaderVars>>

\* FoodManager.getFood(s, index), called from one thread.
GetFood(s, index) ==
    LET r == ManagerGetFood(foodSources, created, s, index)
    IN  /\ WithinObjects(r)
        /\ foodSources' = r.fs
        /\ created' = r.made
        /\ loads' = CountLoad(loads, s, index, r)
        /\ firstReturned' = NoteFirst(firstReturned, s, index, r)
        /\ lastCall' = Call("getFood", s, index, r)
        /\ UNCHANGED <<day, other, threads, edits, loaderVars>>

\* The catalog on its own: sources come and go and foods are asked for.
Next ==
    \/ \E s \in Sources, f \in IndexFiles : AddSource(s, f)
    \/ \E s \in Sources : RemoveSource(s)
    \/ \E s \in Sources, i \in FoodIds : GetFood(s, i)

Spec == Init /\ [][Next]_vars

\* UserDay(manager, servings): the constructor runs __build; when it raises
\* there is no new object, and what the manager loaded stays loaded.
NewUserDay(servings) ==
    /\ day = NoDay
    /\ \E acc \in {BuildLoop(BuildStart(foodSources, created, loads, firstReturned),
                            servings)} :
        /\ WithinObjects(acc)
        /\ foodSources' = acc.fs
        /\ created' = acc.made
        /\ loads' = acc.loads
        /\ firstReturned' = acc.first
        /\ lastCall' = NoCall
        /\ day' = IF acc.raised = "" THEN UserDayOf(servings, acc) ELSE day
        /\ UNCHANGED <<other, threads, edits, loaderVars>>

\* The caller lets go of its UserDay.
DropDay ==
    /\ day # NoDay
    /\ day' = NoDay
    /\ other' = NoDay
    /\ lastCall' = NoCall
    /\ UNCHANGED <<foodSources, created, loads, firstReturned, threads, edits, loaderVars>>

\* Days built over the catalog, each source activated once.
NextDay ==
    \/ \E s \in Sources \ DOMAIN foodSources, f \in IndexFiles : AddSource(s, f)
    \/ \E servings \in ServingLists : NewUserDay(servings)
    \/ DropDay

SpecDay == Init /\ [][NextDay]_vars

\* The orders a list of n servings can be put in.
Orderings(n) ==
    {p \in [1..n -> 1..n] : \A a, b \in 1..n : p[a] = p[b] => a = b}

Permuted(servings, p) == [k \in DOMAIN servings |-> servings[p[k]]]

\* UserDay(manager, permuted): a second day over the servings of the first,
\* put in another order, against the same manager.
NewUserDayPermuted(p) ==
    /\ day.built
    /\ other = NoDay
    /\ \E servings \in {Permuted(day.servings, p)} :
       \E acc \in {BuildLoop(BuildStart(foodSources, created, loads, firstReturned),
                            servings)} :
        /\ WithinObjects(acc)
        /\ foodSources' = acc.fs
        /\ created' = acc.made
        /\ loads' = acc.loads
        /\ firstReturned' = acc.first
        /\ lastCall' = NoCall
        /\ other' = IF acc.raised = "" THEN UserDayOf(servings, acc) ELSE other
        /\ UNCHANGED <<day, threads, edits, loaderVars>>

\* A day and a second day over the same servings in any order, the user's
\* foods being the one source activated.
NextPerm ==
    \/ \E s \in {USER} \ DOMAIN foodSources, f \in IndexFiles : AddSource(s, f)
    \/ \E servings \in ServingLists : NewUserDay(servings)
    \/ \E p \in Orderings(Len(day.servings)) : NewUserDayPermuted(p)

SpecPerm == Init /\ [][NextPerm]_vars

\* UserDay.servings() hands out the day's own list, so what a caller does to
\* that list is done to the day's list; nothing else of the day changes,
\* because only __init__ runs __build.
AppendServing(s) ==
    /\ day.built
    /\ Len(day.servings) < MaxServings
    /\ day' = [day EXCEPT !.servings = Append(@, s)]
    /\ edits < MaxEdits
    /\ edits' = edits + 1
    /\ UNCHANGED <<foodSources, created, loads, firstReturned, lastCall, other, threads, loaderVars>>

RemoveServing(k) ==
    /\ day.built
    /\ k \in DOMAIN day.servings
    /\ day' = [day EXCEPT !.servings = SubSeq(@, 1, k - 1) \o SubSeq(@, k + 1, Len(@))]
    /\ edits < MaxEdits
    /\ edits' = edits + 1
    /\ UNCHANGED <<foodSources, created, loads, firstReturned, lastCall, other, threads, loaderVars>>

\* A serving is a mutable object: a caller may assign to its fields.
ChangeServing(k, s) ==
    /\ day.built
    /\ k \in DOMAIN day.servings
    /\ day.servings[k] # s
    /\ day' = [day EXCEPT !.servings[k] = s]
    /\ edits < MaxEdits
    /\ edits' = edits + 1
    /\ UNCHANGED <<foodSources, created, loads, firstReturned, lastCall, other, threads, loaderVars>>

\* A day whose serving list the caller goes on changing.
NextMut ==
    \/ \E s \in Sources \ DOMAIN foodSources, f \in IndexFiles : AddSource(s, f)
    \/ \E servings \in ServingLists : NewUserDay(servings)
    \/ \E s \in ServingPool : AppendServing(s)
    \/ \E k \in 1..MaxServings : RemoveServing(k)
    \/ \E k \in 1..MaxServings, s \in ServingPool : ChangeServing(k, s)

SpecMut == Init /\ [][NextMut]_vars

\* FoodManager.getFood called from several threads.  A thread switch can
\* fall between any two statements of _FoodSourceWrapper.getFood, so a call
\* is four steps: the lookup of the source, the test of the cache, the
\* loader call, and the store.
ThreadCall(t, s, index) ==
    /\ threads[t].pc = "idle"
    /\ threads' =
         [threads EXCEPT ![t] =
            IF s \notin DOMAIN foodSources
            THEN [IdleThread EXCEPT !.source = s, !.index = index,
                                    !.called = TRUE, !.raised = "MessageError"]
            ELSE [IdleThread EXCEPT !.pc = "check", !.source = s, !.index = index]]
    /\ UNCHANGED <<foodSources, created, loads, firstReturned, lastCall, day, other, edits, loaderVars>>

\* if index in self.__foods: return self.__foods[index]
ThreadCheck(t) ==
    LET s == threads[t].source
        index == threads[t].index
    IN  /\ threads[t].pc = "check"
        /\ IF index \in DOMAIN foodSources[s]
           THEN /\ threads' = [threads EXCEPT ![t] =
                      [@ EXCEPT !.pc = "idle", !.called = TRUE,
                                !.value = foodSources[s][index]]]
                /\ firstReturned' =
                      NoteFirst(firstReturned, s, index, Returned(foodSources[s][index]))
           ELSE /\ threads' = [threads EXCEPT ![t].pc = "load"]
                /\ UNCHANGED firstReturned
        /\ UNCHANGED <<foodSources, created, loads, lastCall, day, other, edits, loaderVars>>

\* food = <the loader of the source>(index)
ThreadLoad(t) ==
    LET s == threads[t].source
        index == threads[t].index
        serial == created[s][index] + 1
        r == Loader(s, index, serial)
    IN  /\ threads[t].pc = "load"
        /\ r.value # NoneObj => serial <= MaxObjects
        /\ IF r.raised # ""
           THEN /\ threads' = [threads EXCEPT ![t] =
                      [@ EXCEPT !.pc = "idle", !.called = TRUE, !.raised = r.raised]]
                /\ UNCHANGED <<created, loads>>
           ELSE /\ threads' = [threads EXCEPT ![t] =
                      [@ EXCEPT !.pc = "store", !.food = r.value]]
                /\ created' = IF r.value = NoneObj THEN created
                              ELSE [created EXCEPT ![s][index] = serial]
                /\ loads' = [loads EXCEPT ![s][index] = @ + 1]
        /\ UNCHANGED <<foodSources, firstReturned, lastCall, day, other, edits, loaderVars>>

\* self.__foods[index] = food; return food
ThreadStore(t) ==
    LET s == threads[t].source
        index == threads[t].index
        food == threads[t].food
    IN  /\ threads[t].pc = "store"
        /\ foodSources' = [foodSources EXCEPT ![s] = (index :> food) @@ @]
        /\ firstReturned' = NoteFirst(firstReturned, s, index, Returned(food))
        /\ threads' = [threads EXCEPT ![t] =
              [@ EXCEPT !.pc = "idle", !.called = TRUE, !.value = food,
                        !.food = NoneObj]]
        /\ UNCHANGED <<created, loads, lastCall, day, other, edits, loaderVars>>

\* Threads calling getFood on sources that are activated once and stay.
NextThreads ==
    \/ \E s \in Sources \ DOMAIN foodSources, f \in IndexFiles : AddSource(s, f)
    \/ \E t \in Threads, s \in Sources, i \in FoodIds : ThreadCall(t, s, i)
    \/ \E t \in Threads : ThreadCheck(t)
    \/ \E t \in Threads : ThreadLoad(t)
    \/ \E t \in Threads : ThreadStore(t)

SpecThreads == Init /\ [][NextThreads]_vars

\* generateMeasures(portions, csvmeasures), the first step of a conversion
\* run: the run's measures map, when no portion raises.
GenerateMeasures(portions) ==
    LET r == GenerateMeasuresOf(portions, CsvMeasures)
    IN  /\ IF r.raised # ""
           THEN UNCHANGED <<measuresMap, newFoods>>
           ELSE /\ measuresMap' = r.value
                /\ newFoods' = NoFoods
        /\ UNCHANGED <<foodSources, created, loads, firstReturned, lastCall, day,
                       other, threads, edits, userFood, toolVars>>

\* generateFoods(csvFoods, measures, conversion, nutrientInfos, nutrients,
\* brandInfo) on the run's measures map.
GenerateFoods(csvFoods, conversion, nutrients, brandInfo) ==
    LET r == GenerateFoodsOf(csvFoods, measuresMap, conversion, LoaderSchema,
                             nutrients, brandInfo)
    IN  /\ \A fid \in DOMAIN r.measures : Len(r.measures[fid]) <= MaxMeasures
        /\ measuresMap' = r.measures
        /\ newFoods' = [called |-> TRUE, raised |-> r.raised,
                        foods |-> IF r.raised = "" THEN r.foods ELSE << >>,
                        nutrients |-> nutrients, brandInfo |-> brandInfo]
        /\ UNCHANGED <<foodSources, created, loads, firstReturned, lastCall, day,
                       other, threads, edits, userFood, toolVars>>

\* UserFood(..., measures=...): model_post_init runs on the list given.
NewUserFood(measures) ==
    /\ userFood' = [built |-> TRUE, measures |-> ModelPostInit(measures)]
    /\ UNCHANGED <<foodSources, created, loads, firstReturned, lastCall, day,
                   other, threads, edits, measuresMap, newFoods, toolVars>>

\* Conversion runs and user foods.
NextFoods ==
    \/ \E portions \in PortionLists : GenerateMeasures(portions)
    \/ \E csvFoods \in CsvFoodLists, dir \in CsvDirs :
          GenerateFoods(csvFoods, dir.conversion, dir.nutrients, dir.brandInfo)
    \/ \E measures \in UserMeasureLists : NewUserFood(measures)

SpecFoods == Init /\ [][NextFoods]_vars

\* ------------------------------------------------------------ _fixOmegaFats
\* The raw rows of the foods _fixOmegaFats is applied to: the coarse 18:3
\* and 18:2 rows, their sub-nutrient rows, and a row of the Omega-3 schema
\* nutrient.
RawPool ==
    { CsvFoodNutrient(1, 1270, FLit(2, 1)), CsvFoodNutrient(1, 1270, 0),
      CsvFoodNutrient(1, 1321, FLit(1, 2)), CsvFoodNutrient(1, 1404, FLit(1, 1)),
      CsvFoodNutrient(1, 1269, FLit(3, 1)), CsvFoodNutrient(1, 1316, FLit(1, 1)),
      CsvFoodNutrient(1, 1278, FLit(1, 1)) }

RawLists == SeqsUpTo(RawPool, MaxRaw)

\* A Food as generateFoods constructs it from the raw rows foodNuts, before
\* the correction.
NewFood(foodNuts) ==
    /\ omega' = [NoOmega EXCEPT !.built = TRUE, !.raw = foodNuts,
                                !.nutrients = NutList(LoaderSchema, foodNuts)]
    /\ UNCHANGED <<foodSources, created, loads, firstReturned, lastCall, day, other,
                   threads, edits, measuresMap, newFoods, userFood, nextId, schemas,
                   written, servingsOut, conversionRun,
                   measuresRun>>

\* _fixOmegaFats(food, foodNuts) on that Food and its raw rows.
FixOmega ==
    /\ omega.built
    /\ omega.applied < MaxFixes
    /\ \E r \in {FixOmegaFats(omega.nutrients, omega.raw)} :
          omega' = [omega EXCEPT !.before = omega.nutrients,
                                 !.nutrients = r.nutrients,
                                 !.once = IF omega.applied = 0 THEN r.nutrients ELSE @,
                                 !.applied = @ + 1,
                                 !.changed = r.changed]
    /\ UNCHANGED <<foodSources, created, loads, firstReturned, lastCall, day, other,
                   threads, edits, measuresMap, newFoods, userFood, nextId, schemas,
                   written, servingsOut, conversionRun,
                   measuresRun>>

\* Foods and the corrections applied to them.
NextOmega ==
    \/ \E foodNuts \in RawLists : NewFood(foodNuts)
    \/ FixOmega

SpecOmega == Init /\ [][NextOmega]_vars

\* ----------------------------------------------------- generateNutrientInfo
\* A row of nutrient.csv as loadNutrients reads it.
CsvNutrient(nid, name, legacyId, unit) ==
    [nid |-> nid, name |-> name, legacyId |-> legacyId, unit |-> unit]

\* A <nutrient> element of the legacy nutrients.xml: its usda attribute is
\* the list of legacy ids, and its index attribute may be missing.
LegacyNutrientInfo(name, unit, usda, index) ==
    [name |-> name, unit |-> unit, usda |-> usda, index |-> index]

\* _getNextId: the value of the counter, and the counter moved on by one.
GetNextId(nid) == [value |-> nid, nid |-> nid + 1]

\* LegacyNutrientInfos.from_xml: the elements in file order; an element
\* without an index attribute takes its index from _getNextId.
RECURSIVE LoadLegacyNutrientInfos(_, _)
LoadLegacyNutrientInfos(elements, nid) ==
    IF elements = << >> THEN [nutrients |-> << >>, nid |-> nid]
    ELSE LET front == LoadLegacyNutrientInfos(SubSeq(elements, 1, Len(elements) - 1), nid)
             e == elements[Len(elements)]
         IN  IF e.index = None
             THEN [nutrients |-> Append(front.nutrients,
                                        [e EXCEPT !.index = GetNextId(front.nid).value]),
                   nid |-> GetNextId(front.nid).nid]
             ELSE [nutrients |-> Append(front.nutrients, [e EXCEPT !.index = e.index.value]),
                   nid |-> front.nid]

\* The NutrientInfo generateNutrientInfo constructs.
ResolvedNutrientInfo(name, unit, legacyIds, usdaIds, cronIndex) ==
    [name |-> name, unit |-> unit, legacyIds |-> legacyIds, usdaIds |-> usdaIds,
     cronIndex |-> cronIndex]

\* legacyIdToUsda of generateNutrientInfo: legacy id -> the last row of it.
LegacyIdToUsda(csvData) ==
    [legId \in {csvData[k].legacyId : k \in DOMAIN csvData} |->
        csvData[SetMax({k \in DOMAIN csvData : csvData[k].legacyId = legId})]]

\* A variant that never compares units.
ResolveRaisesUnitBlind(lni, byLegacy) ==
    IF \E k \in DOMAIN lni.usda : Some(lni.usda[k]) \notin DOMAIN byLegacy
    THEN "KeyError" ELSE ""

\* The exception the inner loop of generateNutrientInfo raises for one
\* legacy definition, "" when it raises none: the first declared id that
\* the map lacks (KeyError) or whose row has another unit (ValueError).
ResolveRaises(lni, byLegacy) ==
    LET bad == {k \in DOMAIN lni.usda :
                   \/ Some(lni.usda[k]) \notin DOMAIN byLegacy
                   \/ byLegacy[Some(lni.usda[k])].unit # lni.unit}
    IN  IF bad = {} THEN ""
        ELSE IF Some(lni.usda[SetMin(bad)]) \notin DOMAIN byLegacy THEN "KeyError"
        ELSE "ValueError"

\* generateNutrientInfo(csvData, legacyData): the schema, or the exception
\* of the first legacy definition that raises one.
GenerateNutrientInfoOf(csvData, legacy) ==
    LET byLegacy == LegacyIdToUsda(csvData)
        raising == {k \in DOMAIN legacy : ResolveRaises(legacy[k], byLegacy) # ""}
    IN  IF raising # {}
        THEN [raised |-> ResolveRaises(legacy[SetMin(raising)], byLegacy),
              nutrients |-> << >>]
        ELSE [raised |-> "",
              nutrients |->
                [k \in DOMAIN legacy |->
                    ResolvedNutrientInfo(
                        legacy[k].name, legacy[k].unit, legacy[k].usda,
                        [j \in DOMAIN legacy[k].usda |->
                            byLegacy[Some(legacy[k].usda[j])].nid],
                        legacy[k].index)]]

\* The legacy nutrients.xml files and nutrient.csv tables of the runs.
LegacyFiles ==
    { << >>,
      <<LegacyNutrientInfo("Protein", "g", <<203>>, None),
        LegacyNutrientInfo("Energy", "kcal", <<208>>, None)>>,
      <<LegacyNutrientInfo("Protein", "g", <<203>>, None),
        LegacyNutrientInfo("Vitamin A", "ug", <<320>>, None)>>,
      <<LegacyNutrientInfo("Omega-3", "g", <<851, 621>>, None),
        LegacyNutrientInfo("Fiber", "g", << >>, None)>>,
      <<LegacyNutrientInfo("Water", "g", <<255>>, None),
        LegacyNutrientInfo("Vitamin A", "ug", <<320>>, None)>>,
      <<LegacyNutrientInfo("Energy", "kcal", <<208>>, Some(5)),
        LegacyNutrientInfo("Protein", "g", <<203>>, None)>> }

CsvNutrientTables ==
    { <<CsvNutrient(1003, "Protein", Some(203), "g"),
        CsvNutrient(1008, "Energy", Some(208), "kcal"),
        CsvNutrient(1106, "Vitamin A, RAE", Some(320), "ug"),
        CsvNutrient(1404, "PUFA 18:3 n-3", Some(851), "g"),
        CsvNutrient(1272, "PUFA 22:6 n-3", Some(621), "g"),
        CsvNutrient(2047, "Energy (Atwater General Factors)", None, "kcal")>>,
      <<CsvNutrient(1003, "Protein", Some(203), "g"),
        CsvNutrient(1008, "Energy", Some(208), "kcal"),
        CsvNutrient(1104, "Vitamin A, IU", Some(320), "iu"),
        CsvNutrient(1404, "PUFA 18:3 n-3", Some(851), "g"),
        CsvNutrient(1272, "PUFA 22:6 n-3", Some(621), "mg")>> }

\* The legacy definitions are loaded: one more load of the process.
LoadLegacy(file) ==
    /\ Len(schemas) < MaxLoads
    /\ schemas # << >> => schemas[Len(schemas)].resolved
    /\ \E r \in {LoadLegacyNutrientInfos(file, nextId)} :
          /\ nextId' = r.nid
          /\ schemas' = Append(schemas, [file |-> file, legacy |-> r.nutrients,
                                         resolved |-> FALSE, csvData |-> << >>,
                                         raised |-> "", nutrients |-> << >>])
    /\ UNCHANGED <<foodSources, created, loads, firstReturned, lastCall, day, other,
                   threads, edits, measuresMap, newFoods, userFood, omega,
                   written, servingsOut, conversionRun,
                   measuresRun>>

\* generateNutrientInfo(csvData, legacyData) on the definitions last loaded.
GenerateNutrientInfo(csvData) ==
    /\ schemas # << >>
    /\ ~schemas[Len(schemas)].resolved
    /\ \E r \in {GenerateNutrientInfoOf(csvData, schemas[Len(schemas)].legacy)} :
          schemas' = [schemas EXCEPT ![Len(schemas)] =
                         [@ EXCEPT !.resolved = TRUE, !.csvData = csvData,
                                   !.raised = r.raised, !.nutrients = r.nutrients]]
    /\ UNCHANGED <<foodSources, created, loads, firstReturned, lastCall, day, other,
                   threads, edits, measuresMap, newFoods, userFood, omega, nextId,
                   written, servingsOut, conversionRun,
                   measuresRun>>

\* The schema resolutions of one process.
NextSchema ==
    \/ \E file \in LegacyFiles : LoadLegacy(file)
    \/ \E csvData \in CsvNutrientTables : GenerateNutrientInfo(csvData)

SpecSchema == Init /\ [][NextSchema]_vars

\* ----------------------------------------------------------- the index file
\* Text is a sequence of one-character strings.
Digits == <<"0", "1", "2", "3", "4", "5", "6", "7", "8", "9">>

IsDigit(c) == \E d \in DOMAIN Digits : Digits[d] = c

\* str(n) of an int n >= 0, as an f-string formats it.
RECURSIVE StrOfInt(_)
StrOfInt(n) ==
    IF n < 10 THEN <<Digits[n + 1]>>
    ELSE StrOfInt(n \div 10) \o <<Digits[(n % 10) + 1]>>

\* int(s) of a string of digits.
RECURSIVE IntOfStr(_)
IntOfStr(cs) ==
    IF cs = << >> THEN 0
    ELSE 10 * IntOfStr(SubSeq(cs, 1, Len(cs) - 1))
         + ((CHOOSE d \in DOMAIN Digits : Digits[d] = cs[Len(cs)]) - 1)

\* The food fields the index is written from.
IndexFood(uid, legacyUID, name) == [uid |-> uid, legacyUID |-> legacyUID, name |-> name]

\* The line convertUsdaFoods writes for a food: the legacy id and "|||" when
\* food.legacyUID is truthy, then the id, "|", the name and a newline.
IndexLine(food) ==
    (IF food.legacyUID # None /\ food.legacyUID.value # 0
     THEN StrOfInt(food.legacyUID.value) \o <<"|", "|", "|">> ELSE << >>)
    \o StrOfInt(food.uid) \o <<"|">> \o food.name \o <<"\n">>

\* The text of the index file: the lines of the foods in list order.
RECURSIVE IndexText(_)
IndexText(foods) ==
    IF foods = << >> THEN << >>
    ELSE IndexText(SubSeq(foods, 1, Len(foods) - 1)) \o IndexLine(foods[Len(foods)])

\* f.readlines(): the text cut after each newline.
RECURSIVE ReadLines(_)
ReadLines(text) ==
    IF text = << >> THEN << >>
    ELSE LET ends == {k \in DOMAIN text : text[k] = "\n"}
             cut == IF ends = {} THEN Len(text) ELSE SetMin(ends)
         IN  <<SubSeq(text, 1, cut)>> \o ReadLines(SubSeq(text, cut + 1, Len(text)))

\* The length of the run of digits of a line that starts at position from.
DigitRun(line, from) ==
    LET stops == {k \in from..Len(line) : ~IsDigit(line[k])}
    IN  IF stops = {} THEN Len(line) - from + 1 ELSE SetMin(stops) - from

\* The rest of a line from a position on, up to its newline: what .* takes.
RestOfLine(line, from) ==
    LET ends == {k \in from..Len(line) : line[k] = "\n"}
    IN  SubSeq(line, from, IF ends = {} THEN Len(line) ELSE SetMin(ends) - 1)

IsBar(line, k) == k <= Len(line) /\ line[k] = "|"

\* INDEX_PAT.match(line), the pattern being (?:(\d+)\|\|\|)?(\d+)\|(.*): the
\* optional group is tried first (digits, then three bars, and after them
\* digits and a bar must follow); when that fails the line is matched
\* without it.  None when neither way matches.
IndexPatMatch(line) ==
    LET n1 == DigitRun(line, 1)
        n2 == DigitRun(line, n1 + 4)
    IN  IF /\ n1 > 0
           /\ IsBar(line, n1 + 1) /\ IsBar(line, n1 + 2) /\ IsBar(line, n1 + 3)
           /\ n2 > 0
           /\ IsBar(line, n1 + 4 + n2)
        THEN [group1 |-> Some(SubSeq(line, 1, n1)),
              group2 |-> SubSeq(line, n1 + 4, n1 + 3 + n2),
              group3 |-> RestOfLine(line, n1 + 5 + n2)]
        ELSE IF n1 > 0 /\ IsBar(line, n1 + 1)
        THEN [group1 |-> None,
              group2 |-> SubSeq(line, 1, n1),
              group3 |-> RestOfLine(line, n1 + 2)]
        ELSE None

FoodProxy(name, sourceUID, legacyUID) ==
    [name |-> name, sourceUID |-> sourceUID, legacyUID |-> legacyUID]

\* readIndex: one proxy per line; a line the pattern does not match makes
\* res None, and res.group raises AttributeError.
RECURSIVE ReadIndexLines(_)
ReadIndexLines(lines) ==
    IF lines = << >> THEN [raised |-> "", proxies |-> << >>]
    ELSE LET front == ReadIndexLines(SubSeq(lines, 1, Len(lines) - 1))
             res == IndexPatMatch(lines[Len(lines)])
         IN  IF front.raised # "" THEN front
             ELSE IF res = None THEN [raised |-> "AttributeError", proxies |-> << >>]
             ELSE [raised |-> "",
                   proxies |->
                     Append(front.proxies,
                            FoodProxy(res.group3, IntOfStr(res.group2),
                                      IF res.group1 # None
                                      THEN Some(IntOfStr(res.group1.value))
                                      ELSE None))]

\* The foods whose index is written: ids, optional legacy ids and
\* single-line names, some with bars in them.
IndexNames ==
    { << >>,
      <<"T", "e", "s", "t", " ", "F", "o", "o", "d">>,
      <<"a", "|", "b">>,
      <<"|", "|", "5", "|", "x">> }

IndexFoods ==
    { IndexFood(uid, legacyUID, name) :
        uid \in {0, 7, 117}, legacyUID \in {None, Some(0), Some(42)},
        name \in IndexNames }

IndexFoodLists == SeqsUpTo(IndexFoods, MaxRows)

\* The index-writing end of convertUsdaFoods, for the foods newFoods.
WriteIndex(foods) ==
    /\ written' = [called |-> TRUE, foods |-> foods, text |-> IndexText(foods),
                   read |-> FALSE, raised |-> "", proxies |-> << >>]
    /\ UNCHANGED <<foodSources, created, loads, firstReturned, lastCall, day, other,
                   threads, edits, measuresMap, newFoods, userFood, omega, nextId,
                   schemas, servingsOut, conversionRun,
                   measuresRun>>

\* readIndex(path, foodSource) on the file last written.
ReadIndex ==
    /\ written.called
    /\ ~written.read
    /\ \E r \in {ReadIndexLines(ReadLines(written.text))} :
          written' = [written EXCEPT !.read = TRUE, !.raised = r.raised,
                                     !.proxies = r.proxies]
    /\ UNCHANGED <<foodSources, created, loads, firstReturned, lastCall, day, other,
                   threads, edits, measuresMap, newFoods, userFood, omega, nextId,
                   schemas, servingsOut, conversionRun,
                   measuresRun>>

\* Index files written and read back.
NextIndex ==
    \/ \E foods \in IndexFoodLists : WriteIndex(foods)
    \/ ReadIndex

SpecIndex == Init /\ [][NextIndex]_vars

\* ------------------------------------------------------------ convertServings
DEPRECATED == "deprecated"

\* A LegacyServing: dtime is the date-and-time attribute of the XML element,
\* a day number and an hour of that day.
LegacyServing(dtime, meal, measure, source, grams, food) ==
    [dtime |-> dtime, meal |-> meal, measure |-> measure, source |-> source,
     grams |-> grams, food |-> food]

\* LegacyServing.date: dtime.date().
LegacyDate(ls) == ls.dtime.day

\* A Serving with its date.
DatedServing(date, source, food, grams, measure, meal) ==
    [date |-> date] @@ Serving(source, food, grams, measure, meal)

\* A variant that never looks the id up in the legacy map.
ServingFoodUnmapped(ls, source, legacyMap) == Some(ls.food)

\* The source a legacy serving is given, None for a source string that is
\* none of the three.
ServingSource(ls, deprecatedIds) ==
    IF ls.source = "USDA"
    THEN IF \E k \in DOMAIN deprecatedIds : deprecatedIds[k] = ls.food
         THEN Some(DEPRECATED) ELSE Some(LEGACY)
    ELSE IF ls.source = "CRDB" THEN Some(CRDB)
    ELSE IF ls.source = "My Foods" THEN Some(USER)
    ELSE None

\* The id a legacy serving is given, None when legacyMap has no such key.
ServingFood(ls, source, legacyMap) ==
    IF source = LEGACY
    THEN IF ls.food \in DOMAIN legacyMap THEN Some(legacyMap[ls.food]) ELSE None
    ELSE Some(ls.food)

\* convertServings(legacy, legacyMap, deprecatedIds): the list returned, or
\* the exception the loop stopped with.
RECURSIVE ConvertServingsOf(_, _, _)
ConvertServingsOf(legacy, legacyMap, deprecatedIds) ==
    IF legacy = << >> THEN [raised |-> "", toRet |-> << >>]
    ELSE LET front == ConvertServingsOf(SubSeq(legacy, 1, Len(legacy) - 1),
                                        legacyMap, deprecatedIds)
             ls == legacy[Len(legacy)]
             source == ServingSource(ls, deprecatedIds)
             uid == ServingFood(ls, source.value, legacyMap)
         IN  IF front.raised # "" THEN front
             ELSE IF source = None THEN [raised |-> "ValueError", toRet |-> << >>]
             ELSE IF uid = None THEN [raised |-> "KeyError", toRet |-> << >>]
             ELSE [raised |-> "",
                   toRet |-> Append(front.toRet,
                                    DatedServing(LegacyDate(ls), source.value,
                                                 uid.value, ls.grams, ls.measure,
                                                 ls.meal))]

\* The legacy servings of the servings.xml files converted.
LegacyPool ==
    { LegacyServing([day |-> 1, hour |-> 8], 0, "", "USDA", FLit(100, 1), 1),
      LegacyServing([day |-> 1, hour |-> 20], 1, "cup", "USDA", FLit(50, 1), 2),
      LegacyServing([day |-> 2, hour |-> 0], 2, "", "USDA", FLit(200, 1), 3),
      LegacyServing([day |-> 2, hour |-> 12], 1, "slice", "CRDB", FLit(30, 1), 1),
      LegacyServing([day |-> 3, hour |-> 7], 0, "", "My Foods", FLit(1, 2), 2),
      LegacyServing([day |-> 3, hour |-> 9], 3, "", "Custom", FLit(10, 1), 1) }

LegacyLists == SeqsUpTo(LegacyPool, MaxLegacy)

\* The legacy-id -> new-id maps and the deprecated id lists of the runs.
LegacyMaps == { (1 :> 101), (1 :> 3) @@ (2 :> 102) }

DeprecatedLists == { << >>, <<3, 2>> }

ConvertServings(legacy, legacyMap, deprecatedIds) ==
    /\ \E r \in {ConvertServingsOf(legacy, legacyMap, deprecatedIds)} :
          servingsOut' = [called |-> TRUE, legacy |-> legacy, legacyMap |-> legacyMap,
                          deprecatedIds |-> deprecatedIds, raised |-> r.raised,
                          toRet |-> r.toRet]
    /\ UNCHANGED <<foodSources, created, loads, firstReturned, lastCall, day, other,
                   threads, edits, measuresMap, newFoods, userFood, omega, nextId,
                   schemas, written, conversionRun,
                   measuresRun>>

\* Legacy serving lists converted.
NextServings ==
    \E legacy \in LegacyLists, legacyMap \in LegacyMaps,
       deprecatedIds \in DeprecatedLists :
        ConvertServings(legacy, legacyMap, deprecatedIds)

SpecServings == Init /\ [][NextServings]_vars

\* ----------------------------------------------------------- convertUsdaFoods
BRANDED == "branded_food"
FOUNDATION == "foundation_food"

\* A date: year, month, day.
Date(y, m, d) == <<y, m, d>>

\* date < date.
DateBefore(a, b) ==
    \/ a[1] < b[1]
    \/ a[1] = b[1] /\ a[2] < b[2]
    \/ a[1] = b[1] /\ a[2] = b[2] /\ a[3] < b[3]

\* A row of branded_food.csv as loadBrandedFoods returns it: the fields
\* generateFoods reads and the discontinuation date, None for an empty
\* column.
BrandRow(bi, discontinued) == [discontinued |-> discontinued] @@ bi

\* A variant that also cuts a food discontinued on the cutoff date itself.
CutByOnOrBefore(bi, cutDate) ==
    bi.discontinued # None /\ ~DateBefore(cutDate, bi.discontinued.value)

\* bi.discontinued and bi.discontinued < cutDate
CutBy(bi, cutDate) ==
    bi.discontinued # None /\ DateBefore(bi.discontinued.value, cutDate)

\* A variant that leaves the rows in the order of the food table.
SortedByFidUnsorted(fs) == fs

\* sorted(..., key=lambda x: x.fid): ascending ids, rows of one id in list
\* order.
RECURSIVE SortedByFid(_)
SortedByFid(fs) ==
    IF fs = << >> THEN << >>
    ELSE LET x == fs[Len(fs)]
             front == SortedByFid(SubSeq(fs, 1, Len(fs) - 1))
             NotAfter(f) == f.fid <= x.fid
             After(f) == f.fid > x.fid
         IN  SelectSeq(front, NotAfter) \o <<x>> \o SelectSeq(front, After)

\* loadFoodNutrients(csvDir, foodFilter, nutFilter): the rows of the wanted
\* foods and nutrients, in file order.
LoadFoodNutrients(rows, filterIds, nutrientIds) ==
    Pick(rows, {k \in DOMAIN rows : rows[k].fid \in filterIds
                                     /\ rows[k].nid \in nutrientIds})

\* The foods convertUsdaFoods hands to generateFoods: those of the category,
\* by id, without the ones a brand row cuts when a cutoff date is given.
Sliced(csvFoods, brandInfo, foodSource, cutDate) ==
    LET OfSource(f) == f.foodSource = foodSource
        sliced == SortedByFid(SelectSeq(csvFoods, OfSource))
        foodsToCut == IF cutDate = None THEN {}
                      ELSE {brandInfo[k].fid : k \in {j \in DOMAIN brandInfo :
                                                        CutBy(brandInfo[j], cutDate.value)}}
        Kept(f) == f.fid \notin foodsToCut
    IN  SelectSeq(sliced, Kept)

\* The entry names writeFoodsToZip gives the archive, in the order written.
ZipNames(foods) == [k \in DOMAIN foods |-> foods[k].uid]

\* The fields of the index lines written for the foods: the legacy id when
\* food.legacyUID is truthy, the id and the name.
IndexFields(foods) ==
    [k \in DOMAIN foods |->
        [legId |-> IF foods[k].legacyUID # None /\ foods[k].legacyUID.value # 0
                   THEN foods[k].legacyUID ELSE None,
         uid |-> foods[k].uid,
         name |-> foods[k].name]]

\* The rows of the CSV directory the conversions are run on, other than the
\* food and brand rows.
RunPortions == <<CsvPortion(1, FLit(1, 1), 1000, "", "chopped", FLit(24, 1))>>

RunNutrients ==
    <<CsvFoodNutrient(1, 1003, FLit(10, 1)), CsvFoodNutrient(2, 1004, FLit(5, 1)),
      CsvFoodNutrient(1, 1270, FLit(2, 1)), CsvFoodNutrient(4, 1003, FLit(3, 1)),
      CsvFoodNutrient(2, 2047, FLit(80, 1))>>

\* The nutrientInfos handed to the conversions: the 18:3 parent acid is one
\* of the ids of Omega-3, so its rows pass the nutrient filter.
RunSchema ==
    <<NutrientInfo("Protein", {1003}), NutrientInfo("Fat", {1004}),
      NutrientInfo("Omega-3", {1404, 1270}), NutrientInfo("Omega-6", {1316})>>

\* The rows of food.csv and of branded_food.csv.
RunFoodPool ==
    { CsvFood(BRANDED, 1, None, "Oil"),
      CsvFood(BRANDED, 2, None, "Milk"),
      CsvFood(BRANDED, 3, None, "Tea"),
      CsvFood(FOUNDATION, 4, None, "Kale") }

RunFoodLists == SeqsUpTo(RunFoodPool, MaxRows)

RunBrandPool ==
    { BrandRow(CsvBrandedFood(1, <<"K", "o">>, << >>, "", None),
               Some(Date(2023, 12, 31))),
      BrandRow(CsvBrandedFood(2, << >>, <<"D", "a", "b">>, "", None),
               Some(Date(2024, 1, 1))),
      BrandRow(CsvBrandedFood(2, << >>, << >>, "Lite", None), None) }

RunBrandLists == SeqsUpTo(RunBrandPool, MaxRows)

CutDates == {None, Some(Date(2024, 1, 1))}

\* convertUsdaFoods(csvDir, nutrientInfos, foodSource, cutDate): what the
\* run leaves in the archive and in the index file, or the exception that
\* ends it before either is written.
ConvertUsdaFoods(csvFoods, brandRows, foodSource, cutDate) ==
    LET measures == GenerateMeasuresOf(RunPortions, CsvMeasures)
        OfSource(f) == f.foodSource = foodSource
        foodFilter == {f.fid : f \in {csvFoods[k] : k \in {j \in DOMAIN csvFoods :
                                                         OfSource(csvFoods[j])}}}
        nutFilter == UNION {RunSchema[k].usdaIds : k \in DOMAIN RunSchema}
        nutrients == LoadFoodNutrients(RunNutrients, foodFilter, nutFilter)
        brandInfo == IF foodSource = BRANDED THEN brandRows ELSE << >>
        sliced == Sliced(csvFoods, brandInfo, foodSource, cutDate)
    IN  /\ \E r \in {IF measures.raised # ""
                     THEN [raised |-> measures.raised, foods |-> << >>]
                     ELSE GenerateFoodsOf(sliced, measures.value, CheeseFactors,
                                          RunSchema, nutrients, brandInfo)} :
              conversionRun' =
                  [called |-> TRUE, csvFoods |-> csvFoods, brandRows |-> brandRows,
                   foodSource |-> foodSource, cutDate |-> cutDate,
                   raised |-> r.raised,
                   archive |-> IF r.raised = "" THEN ZipNames(r.foods) ELSE << >>,
                   index |-> IF r.raised = "" THEN IndexFields(r.foods) ELSE << >>]
        /\ UNCHANGED <<foodSources, created, loads, firstReturned, lastCall, day, other,
                       threads, edits, measuresMap, newFoods, userFood, omega, nextId,
                       schemas, written, servingsOut,
                   measuresRun>>

\* Conversions of one category of a CSV directory.
NextConvert ==
    \E csvFoods \in RunFoodLists, brandRows \in RunBrandLists,
       foodSource \in {BRANDED, FOUNDATION}, cutDate \in CutDates :
        ConvertUsdaFoods(csvFoods, brandRows, foodSource, cutDate)

SpecConvert == Init /\ [][NextConvert]_vars

\* ----------------------------------------------------------- generateMeasures
\* The portion rows generateMeasures is called on: rows with a unit name, a
\* description and a modifier in every combination, and a row of a unit id
\* the table has no name for.
MeasurePortionPool ==
    { CsvPortion(1, FLit(1, 1), 1000, "", "chopped", FLit(24, 1)),
      CsvPortion(1, FLit(1, 1), 9999, "g", "", FLit(1, 1)),
      CsvPortion(2, FLit(1, 2), 9999, "slice", "thin", FLit(14, 1)),
      CsvPortion(2, FLit(2, 1), 1001, "", "", FLit(30, 1)),
      CsvPortion(2, FLit(1, 1), 1001, "heaped", "level", FLit(20, 1)),
      CsvPortion(3, FLit(1, 1), 9999, "", "", FLit(7, 1)),
      CsvPortion(1, FLit(1, 1), 1002, "", "", FLit(5, 1)) }

MeasurePortionLists == SeqsUpTo(MeasurePortionPool, MaxPortions)

\* generateMeasures(portions, measures): the map returned, or the exception
\* that ends the call.
CallGenerateMeasures(portions) ==
    /\ \E r \in {GenerateMeasuresOf(portions, CsvMeasures)} :
          measuresRun' = [called |-> TRUE, portions |-> portions,
                          raised |-> r.raised, toRet |-> r.value]
    /\ UNCHANGED <<foodSources, created, loads, firstReturned, lastCall, day, other,
                   threads, edits, measuresMap, newFoods, userFood, omega, nextId,
                   schemas, written, servingsOut, conversionRun>>

\* Portion tables turned into measures.
NextMeasures == \E portions \in MeasurePortionLists : CallGenerateMeasures(portions)

SpecMeasures == Init /\ [][NextMeasures]_vars

\* ------------------------------------------------------------ branded names
\* The brand rows of the runs that name branded foods: owner and brand
\* alike, owner and brand unlike with a subbrand, an owner alone, a brand
\* alone with a subbrand, and a row with none of the three.
NameBrandPool ==
    { AcmeBrand,
      KoBrand,
      CsvBrandedFood(1, <<"K", "o">>, << >>, "", None),
      CsvBrandedFood(2, << >>, <<"D", "a", "b">>, "Lite", None),
      CsvBrandedFood(2, << >>, << >>, "", None) }

NameBrandLists == SeqsUpTo(NameBrandPool, MaxRows)

\* generateFoods on food rows and brand rows, with no raw nutrient rows and
\* no conversion factors.
NextNames ==
    \E csvFoods \in CsvFoodLists, brandInfo \in NameBrandLists :
        GenerateFoods(csvFoods, << >>, << >>, brandInfo)

SpecNames == Init /\ [][NextNames]_vars

\* ------------------------------------------------------------------ claims
\* What the claims compare the day with: the stored record a serving names
\* and the vector it ought to give.
ResolvedFood(s) == StoredFoods[s.food]

Lists(food, nm) == \E j \in DOMAIN food.nutrients : food.nutrients[j].name = nm

PerHundred(food, nm) ==
    food.nutrients[CHOOSE j \in DOMAIN food.nutrients : food.nutrients[j].name = nm].amount

ExpectedVector(s) ==
    [i \in 1..Len(Nutrients) |->
        IF Lists(ResolvedFood(s), Nutrients[i])
        THEN FMul(PerHundred(ResolvedFood(s), Nutrients[i]), FDivInt(s.grams, 100))
        ELSE 0]

\* Entry i of each vector of a list, summed as Python's sum() does.
ColumnSum(vectors, i) == PySum([k \in DOMAIN vectors |-> vectors[k][i]])

\* Entry i of each vector of a list, summed exactly.
RECURSIVE ExactColumnSum(_, _)
ExactColumnSum(vectors, i) ==
    IF vectors = << >> THEN 0
    ELSE ExactColumnSum(SubSeq(vectors, 1, Len(vectors) - 1), i)
         + vectors[Len(vectors)][i]

ExpectedVectors(servings) == [k \in DOMAIN servings |-> ExpectedVector(servings[k])]

\* C1: every serving of a UserDay has a vector with one entry per schema
\* nutrient, in schema order: the food's per-100g amount scaled by grams/100
\* where the resolved food lists the nutrient, 0 where it does not.
C1_ServingVectors ==
    day.built =>
        /\ Len(day.servingTuples) = Len(day.servings)
        /\ \A k \in DOMAIN day.servings :
              /\ DOMAIN day.servingTuples[k] = 1..Len(Nutrients)
              /\ day.servingTuples[k] = ExpectedVector(day.servings[k])

\* C1's case: 200 g of the food with 10 g protein and 5 g fat per 100 g and
\* no carbohydrate row gives [20, 10, 0].
C1_Witness ==
    /\ day.built
    /\ \E k \in DOMAIN day.servings :
          /\ day.servings[k] = Serving(USER, 3, FLit(200, 1), "", 2)
          /\ day.servingTuples[k] = <<FLit(20, 1), FLit(10, 1), 0>>

\* C2: the day total is the element-wise sum of the vectors of every serving
\* of the list, those of meal 0 included: each of its entries is the sum of
\* that entry over all servings, and a day with servings has one entry per
\* schema nutrient.
C2_DayTotal ==
    day.built =>
        /\ day.servings # << >> => Len(day.nutrition) = Len(Nutrients)
        /\ \A i \in DOMAIN day.nutrition :
              day.nutrition[i] = ColumnSum(ExpectedVectors(day.servings), i)

\* C2's case: a day of a serving of meal 0 and one of another meal, both
\* with fat, whose total holds more fat than either.
C2_Witness ==
    /\ day.built
    /\ \E j, k \in DOMAIN day.servings :
          /\ day.servings[j].meal = 0
          /\ day.servings[k].meal # 0
          /\ day.servingTuples[j][2] > 0
          /\ day.servingTuples[k][2] > 0
          /\ day.nutrition[2] > day.servingTuples[j][2]
          /\ day.nutrition[2] > day.servingTuples[k][2]

MealIds(servings) == {servings[k].meal : k \in DOMAIN servings} \ {0}

ServingsOfMeal(servings, m) == LET InMeal(s) == s.meal = m IN SelectSeq(servings, InMeal)

\* C3: for every nonzero meal id m of the serving list, getMealNutrition(m)
\* is the element-wise sum of the vectors of exactly the servings of meal m,
\* and the servings of meal 0 are in no meal total.
C3_MealTotals ==
    day.built =>
        /\ DOMAIN day.mealNutrition = MealIds(day.servings)
        /\ \A m \in MealIds(day.servings) :
              /\ Len(day.mealNutrition[m]) = Len(Nutrients)
              /\ \A i \in 1..Len(Nutrients) :
                    day.mealNutrition[m][i] =
                        ColumnSum(ExpectedVectors(ServingsOfMeal(day.servings, m)), i)

\* C3's case: a meal of two servings beside a serving of meal 0 that has
\* fat the meal total does not count.
C3_Witness ==
    /\ day.built
    /\ 1 \in DOMAIN day.mealNutrition
    /\ Len(ServingsOfMeal(day.servings, 1)) = 2
    /\ \E k \in DOMAIN day.servings :
          /\ day.servings[k].meal = 0
          /\ day.servingTuples[k][2] > 0
          /\ day.mealNutrition[1][2] < day.nutrition[2]

\* sum(mealTotal[m] for m in meals) + sum(vectors of servings with meal == 0),
\* entry i, as the floats give it.
PartitionSum(d, i) ==
    LET mealTotals == [j \in DOMAIN d.meals |-> d.mealNutrition[d.meals[j]]]
        ungrouped == {k \in DOMAIN d.servings : d.servings[k].meal = 0}
        loose == [j \in 1..Cardinality(ungrouped) |->
                    d.servingTuples[CHOOSE k \in ungrouped :
                        Cardinality({h \in ungrouped : h < k}) = j - 1]]
    IN  FAdd(ColumnSum(mealTotals, i), ColumnSum(loose, i))

\* Two float sums of the same n values agree within the rounding each order
\* of summation may add up: n roundings of relative size 2^-MantBits each
\* way, measured against the exact sum.
WithinTolerance(a, b, n, exact) ==
    Abs(a - b) * (Pow2(MantBits) - n) <= 2 * n * exact

\* C4 as stated: the meal totals and the servings of meal 0 add up to the
\* day total exactly.
C4_PartitionExact ==
    day.built =>
        \A i \in DOMAIN day.nutrition : PartitionSum(day, i) = day.nutrition[i]

\* C4, amended: the meal totals and the servings of meal 0 add up to the day
\* total within floating-point tolerance.
C4_PartitionWithinTolerance ==
    day.built =>
        \A i \in DOMAIN day.nutrition :
            WithinTolerance(PartitionSum(day, i), day.nutrition[i],
                            Len(day.servings),
                            ExactColumnSum(day.servingTuples, i))

\* C4's case: a day with two meals and a serving of meal 0.
C4_Witness ==
    /\ day.built
    /\ Len(day.meals) = 2
    /\ \E k \in DOMAIN day.servings : day.servings[k].meal = 0
    /\ \E i \in DOMAIN day.nutrition : day.nutrition[i] > 0

\* C6: while a source stays activated, the loader returns at most once per
\* (source, id), and every getFood returns the object the first one returned.
C6_Memoized ==
    /\ \A s \in Sources, i \in FoodIds : loads[s][i] <= 1
    /\ (lastCall.op = "getFood" /\ lastCall.raised = "") =>
          /\ firstReturned[lastCall.source][lastCall.index].seen
          /\ lastCall.value = firstReturned[lastCall.source][lastCall.index].value

\* C6's case: a getFood answered from the cache with a food object.
C6_Witness ==
    /\ lastCall.op = "getFood"
    /\ lastCall.raised = ""
    /\ lastCall.invoked = 0
    /\ lastCall.value # NoneObj

\* C8: getFood on a source that is not active raises an error whose message
\* names the source, calls no loader, and leaves the active sources and
\* every cache as they were.
C8_InactiveSource ==
    [][(lastCall'.op = "getFood" /\ lastCall'.source \notin DOMAIN foodSources) =>
          /\ lastCall'.raised = "MessageError"
          /\ \E k \in DOMAIN lastCall'.message :
                lastCall'.message[k] = lastCall'.source
          /\ lastCall'.invoked = 0
          /\ foodSources' = foodSources
          /\ created' = created
          /\ loads' = loads]_vars

\* C8's case: getFood on a source that was active, loaded a food, and was
\* then removed.
C8_Witness ==
    /\ lastCall.op = "getFood"
    /\ lastCall.raised = "MessageError"
    /\ lastCall.source \notin DOMAIN foodSources
    /\ \E i \in FoodIds : created[lastCall.source][i] > 0

\* C5 as stated: a day built from the same servings in another order has the
\* identical day total.
C5_OrderIdentical ==
    (day.built /\ other.built) => other.nutrition = day.nutrition

\* C5, amended: a day built from the same servings in another order has the
\* same day total within floating-point tolerance.
C5_OrderWithinTolerance ==
    (/\ day.built
     /\ other.built
     /\ \E p \in Orderings(Len(day.servings)) :
           other.servings = Permuted(day.servings, p)) =>
        /\ Len(other.nutrition) = Len(day.nutrition)
        /\ \A i \in DOMAIN day.nutrition :
              WithinTolerance(other.nutrition[i], day.nutrition[i],
                              Len(day.servings),
                              ExactColumnSum(day.servingTuples, i))

\* C5's case: three servings and the same three in another order.
C5_Witness ==
    /\ day.built
    /\ other.built
    /\ Len(day.servings) = MaxServings
    /\ other.servings # day.servings
    /\ \E i \in DOMAIN day.nutrition : day.nutrition[i] > 0

\* C7: when threads call getFood at the same time on an uncached (source,
\* id), the loader returns at most once for it and every caller gets the
\* same object.
C7_OneLoadOneObject ==
    /\ \A s \in Sources, i \in FoodIds : loads[s][i] <= 1
    /\ \A t, u \in Threads :
          (/\ threads[t].pc = "idle" /\ threads[t].called /\ threads[t].raised = ""
           /\ threads[u].pc = "idle" /\ threads[u].called /\ threads[u].raised = ""
           /\ threads[t].source = threads[u].source
           /\ threads[t].index = threads[u].index) =>
              threads[t].value = threads[u].value

\* What __build would make of the day's serving list as it is now.
Rebuilt(d) ==
    BuildLoop(BuildStart(foodSources, created, loads, firstReturned), d.servings)

\* C9: whatever is done to the serving list of a UserDay, its vectors, day
\* total and meal totals are those a build of the current list gives.
C9_DerivedFollowList ==
    day.built =>
        /\ Rebuilt(day).raised = ""
        /\ day.servingTuples = Rebuilt(day).servingTuples
        /\ day.nutrition = DayNutrition(Rebuilt(day).servingTuples)
        /\ day.mealNutrition = MealNutrition(Rebuilt(day).mealTuples)


\* The 1-gram unit measure occurs exactly once in a list and is its first.
GramOnceAndFirst(measures) ==
    /\ measures # << >>
    /\ measures[1] = GRAM
    /\ Cardinality({k \in DOMAIN measures : measures[k] = GRAM}) = 1

\* C10: in every food generateFoods returns and in every UserFood, the
\* 1-gram unit measure occurs exactly once and is the first measure.
C10_GramOnceAndFirst ==
    /\ \A k \in DOMAIN newFoods.foods :
          GramOnceAndFirst(newFoods.foods[k].measures)
    /\ userFood.built => GramOnceAndFirst(userFood.measures)

\* What the claims about the omega correction read off a food: whether the
\* raw rows have a row of a nutrient id, the amount of the first such row,
\* the entries of a name and the amount of the first of them (0 without).
RawHas(raw, nid) == \E k \in DOMAIN raw : raw[k].nid = nid

RawAmount(raw, nid) ==
    raw[CHOOSE k \in DOMAIN raw :
            raw[k].nid = nid /\ \A j \in 1..(k - 1) : raw[j].nid # nid].amount

EntriesNamed(nutrients, name) == SelectSeq(nutrients, LAMBDA e : e.name = name)

AmountOf(nutrients, name) ==
    IF EntriesNamed(nutrients, name) = << >> THEN 0
    ELSE EntriesNamed(nutrients, name)[1].amount

\* The raw rows of one food among the rows given to generateFoods.
RawRowsOf(nutrients, fid) == SelectSeq(nutrients, LAMBDA n : n.fid = fid)

\* C11: in every food generateFoods returns, a schema nutrient for which
\* the food has no raw row (no row whose id is in the nutrient's usda ids)
\* has no entry of amount 0 in the food's nutrient list.
C11_SparseEntries ==
    \A k \in DOMAIN newFoods.foods :
       \A i \in DOMAIN LoaderSchema :
          (~\E j \in DOMAIN newFoods.nutrients :
                /\ newFoods.nutrients[j].fid = newFoods.foods[k].uid
                /\ newFoods.nutrients[j].nid \in LoaderSchema[i].usdaIds) =>
             ~\E e \in DOMAIN newFoods.foods[k].nutrients :
                 /\ newFoods.foods[k].nutrients[e].name = LoaderSchema[i].name
                 /\ newFoods.foods[k].nutrients[e].amount = 0

\* C11's case: generateFoods returned a food whose raw rows the correction
\* looked at (a coarse 18:3 row among them) and that lacks rows of some
\* schema nutrient, and a food with an entry of amount 0 from a raw row.
C11_Witness ==
    /\ newFoods.called
    /\ newFoods.raised = ""
    /\ \E k \in DOMAIN newFoods.foods :
          /\ RawHas(RawRowsOf(newFoods.nutrients, newFoods.foods[k].uid), 1270)
          /\ \E i \in DOMAIN LoaderSchema :
                EntriesNamed(newFoods.foods[k].nutrients, LoaderSchema[i].name) = << >>
    /\ \E k \in DOMAIN newFoods.foods :
          \E e \in DOMAIN newFoods.foods[k].nutrients :
             newFoods.foods[k].nutrients[e].amount = 0

\* C12: after _fixOmegaFats is applied twice to a food, with the same raw
\* rows, the food's Omega-3 and Omega-6 amounts are those it had after the
\* first application.
C12_FixTwiceAsOnce ==
    omega.applied = 2 =>
        /\ AmountOf(omega.nutrients, "Omega-3") = AmountOf(omega.once, "Omega-3")
        /\ AmountOf(omega.nutrients, "Omega-6") = AmountOf(omega.once, "Omega-6")

\* C15: an application of _fixOmegaFats with a raw 1270 row and no raw 1404
\* row leaves the food's Omega-3 amount at its previous amount (0 without
\* an entry) plus the 1270 amount, minus the 1321 amount when there is a
\* 1321 row; any other application leaves the Omega-3 entries as they were.
C15_Omega3Correction ==
    omega.applied >= 1 =>
        IF RawHas(omega.raw, 1270) /\ ~RawHas(omega.raw, 1404)
        THEN /\ EntriesNamed(omega.nutrients, "Omega-3") # << >>
             /\ AmountOf(omega.nutrients, "Omega-3") =
                   IF RawHas(omega.raw, 1321)
                   THEN FSub(FAdd(AmountOf(omega.before, "Omega-3"),
                                  RawAmount(omega.raw, 1270)),
                             RawAmount(omega.raw, 1321))
                   ELSE FAdd(AmountOf(omega.before, "Omega-3"),
                             RawAmount(omega.raw, 1270))
        ELSE EntriesNamed(omega.nutrients, "Omega-3") =
                EntriesNamed(omega.before, "Omega-3")

\* C15's case: a food with an Omega-3 amount, a 1270 row and a 1321 row and
\* no 1404 row, after the correction.
C15_Witness ==
    /\ omega.applied = 1
    /\ RawHas(omega.raw, 1270)
    /\ RawHas(omega.raw, 1321)
    /\ ~RawHas(omega.raw, 1404)
    /\ AmountOf(omega.before, "Omega-3") > 0
    /\ AmountOf(omega.nutrients, "Omega-3") # AmountOf(omega.before, "Omega-3")

\* C16: an application of _fixOmegaFats with a raw 1269 row and no raw 1316
\* row leaves the food's Omega-6 amount at its previous amount (0 without
\* an entry) plus the 1269 amount, nothing subtracted; any other
\* application leaves the Omega-6 entries as they were.
C16_Omega6Correction ==
    omega.applied >= 1 =>
        IF RawHas(omega.raw, 1269) /\ ~RawHas(omega.raw, 1316)
        THEN /\ EntriesNamed(omega.nutrients, "Omega-6") # << >>
             /\ AmountOf(omega.nutrients, "Omega-6") =
                   FAdd(AmountOf(omega.before, "Omega-6"), RawAmount(omega.raw, 1269))
        ELSE EntriesNamed(omega.nutrients, "Omega-6") =
                EntriesNamed(omega.before, "Omega-6")

\* C16's case: a food without an Omega-6 entry, with a 1269 row, a 1270 row
\* and a 1321 row and no 1316 row, after the correction.
C16_Witness ==
    /\ omega.applied = 1
    /\ RawHas(omega.raw, 1269)
    /\ RawHas(omega.raw, 1321)
    /\ ~RawHas(omega.raw, 1316)
    /\ EntriesNamed(omega.before, "Omega-6") = << >>
    /\ AmountOf(omega.nutrients, "Omega-6") = RawAmount(omega.raw, 1269)

\* The source nutrient a legacy id resolves to: the last row of the table
\* that carries the id.
ResolvesTo(csvData, legId) ==
    csvData[CHOOSE k \in DOMAIN csvData :
                /\ csvData[k].legacyId = Some(legId)
                /\ \A j \in (k + 1)..Len(csvData) : csvData[j].legacyId # Some(legId)]

Resolves(csvData, legId) == \E k \in DOMAIN csvData : csvData[k].legacyId = Some(legId)

\* The ordinals of a resolved schema, in list order.
Ordinals(nutrients) == [k \in DOMAIN nutrients |-> nutrients[k].cronIndex]

\* C13: two loads of the same legacy definitions (definitions that carry no
\* index of their own), each resolved by generateNutrientInfo against the
\* same table in one process, give every nutrient the same ordinal, and
\* the ordinals of a schema are 0..n-1 in list order.
C13_SameDenseOrdinals ==
    \A a, b \in DOMAIN schemas :
       (/\ schemas[a].resolved /\ schemas[a].raised = ""
        /\ schemas[b].resolved /\ schemas[b].raised = ""
        /\ schemas[a].file = schemas[b].file
        /\ schemas[a].csvData = schemas[b].csvData
        /\ \A k \in DOMAIN schemas[a].file : schemas[a].file[k].index = None) =>
           /\ Ordinals(schemas[a].nutrients) = Ordinals(schemas[b].nutrients)
           /\ \A k \in DOMAIN schemas[a].nutrients :
                 schemas[a].nutrients[k].cronIndex = k - 1

\* C20: generateNutrientInfo raises and returns no schema whenever an id
\* declared by a legacy definition resolves to a source nutrient whose unit
\* differs from the definition's unit.
C20_UnitMismatchFails ==
    \A a \in DOMAIN schemas :
       (/\ schemas[a].resolved
        /\ \E k \in DOMAIN schemas[a].legacy :
              \E j \in DOMAIN schemas[a].legacy[k].usda :
                 /\ Resolves(schemas[a].csvData, schemas[a].legacy[k].usda[j])
                 /\ ResolvesTo(schemas[a].csvData, schemas[a].legacy[k].usda[j]).unit
                       # schemas[a].legacy[k].unit) =>
           /\ schemas[a].raised # ""
           /\ schemas[a].nutrients = << >>

\* C20's case: the first definition resolves, an id of the second resolves
\* to a nutrient of another unit, and generateNutrientInfo raised
\* ValueError; in a later load a definition's second id is the one.
C20_Witness ==
    /\ \E a \in DOMAIN schemas :
          /\ schemas[a].resolved
          /\ schemas[a].raised = "ValueError"
          /\ Len(schemas[a].legacy) = 2
          /\ ResolveRaises(schemas[a].legacy[1], LegacyIdToUsda(schemas[a].csvData)) = ""
    /\ \E a \in DOMAIN schemas :
          /\ schemas[a].resolved
          /\ schemas[a].raised = "ValueError"
          /\ Len(schemas[a].legacy[1].usda) = 2

\* C14: reading back the index written for a list of foods gives one proxy
\* per food, in the same order, with the food's id, legacy id (none when
\* the food has none) and name.
C14_IndexRoundTrip ==
    (written.called /\ written.read) =>
        /\ written.raised = ""
        /\ Len(written.proxies) = Len(written.foods)
        /\ \A k \in DOMAIN written.foods :
              /\ written.proxies[k].sourceUID = written.foods[k].uid
              /\ written.proxies[k].legacyUID = written.foods[k].legacyUID
              /\ written.proxies[k].name = written.foods[k].name

IsDeprecated(food, deprecatedIds) == \E k \in DOMAIN deprecatedIds : deprecatedIds[k] = food

\* C17: a list convertServings returns has one serving per legacy serving,
\* in the same position: "USDA" with a deprecated id becomes DEPRECATED with
\* the id unchanged, "USDA" otherwise becomes LEGACY with the id
\* legacyMap[id], "CRDB" becomes CRDB and "My Foods" becomes USER with the id
\* unchanged; date, grams, measure and meal are those of the legacy serving.
\* The call returns whenever every source is one of the three and every
\* "USDA" id that is not deprecated is a key of legacyMap.
C17_ConvertServingsMapping ==
    servingsOut.called =>
        LET legacy == servingsOut.legacy
            legacyMap == servingsOut.legacyMap
            deprecatedIds == servingsOut.deprecatedIds
            toRet == servingsOut.toRet
            Convertible(ls) ==
                \/ ls.source \in {"CRDB", "My Foods"}
                \/ /\ ls.source = "USDA"
                   /\ \/ IsDeprecated(ls.food, deprecatedIds)
                      \/ ls.food \in DOMAIN legacyMap
        IN  /\ (\A k \in DOMAIN legacy : Convertible(legacy[k])) => servingsOut.raised = ""
            /\ servingsOut.raised = "" =>
                 /\ Len(toRet) = Len(legacy)
                 /\ \A k \in DOMAIN legacy :
                      /\ toRet[k].date = legacy[k].dtime.day
                      /\ toRet[k].grams = legacy[k].grams
                      /\ toRet[k].measure = legacy[k].measure
                      /\ toRet[k].meal = legacy[k].meal
                      /\ (legacy[k].source = "USDA"
                            /\ IsDeprecated(legacy[k].food, deprecatedIds)) =>
                           (toRet[k].source = DEPRECATED /\ toRet[k].food = legacy[k].food)
                      /\ (legacy[k].source = "USDA"
                            /\ ~IsDeprecated(legacy[k].food, deprecatedIds)) =>
                           (toRet[k].source = LEGACY
                              /\ toRet[k].food = legacyMap[legacy[k].food])
                      /\ legacy[k].source = "CRDB" =>
                           (toRet[k].source = CRDB /\ toRet[k].food = legacy[k].food)
                      /\ legacy[k].source = "My Foods" =>
                           (toRet[k].source = USER /\ toRet[k].food = legacy[k].food)

\* A returned list of three servings with a deprecated USDA id, a remapped
\* USDA id whose new id differs from it, and a serving of another source.
C17_Witness ==
    /\ servingsOut.called
    /\ servingsOut.raised = ""
    /\ Len(servingsOut.toRet) = 3
    /\ \E a, b, c \in DOMAIN servingsOut.toRet :
          /\ servingsOut.toRet[a].source = DEPRECATED
          /\ servingsOut.toRet[b].source = LEGACY
          /\ servingsOut.toRet[b].food # servingsOut.legacy[b].food
          /\ servingsOut.toRet[c].source \in {CRDB, USER}

\* C18: a branded conversion with a cutoff date that completes leaves in
\* the archive and in the index exactly the foods of the category none of
\* whose brand rows has a discontinuation date before the cutoff: a food
\* whose brand row has no date, or a date on or after the cutoff, is in
\* both; no run leaves a food discontinued before the cutoff in either.
C18_CutoffFilter ==
    (conversionRun.called /\ conversionRun.foodSource = BRANDED
        /\ conversionRun.cutDate # None) =>
        LET csvFoods == conversionRun.csvFoods
            brandRows == conversionRun.brandRows
            cutDate == conversionRun.cutDate.value
            Early(fid) ==
                \E k \in DOMAIN brandRows :
                    /\ brandRows[k].fid = fid
                    /\ brandRows[k].discontinued # None
                    /\ DateBefore(brandRows[k].discontinued.value, cutDate)
            category == {csvFoods[k].fid : k \in {j \in DOMAIN csvFoods :
                                                    csvFoods[j].foodSource = BRANDED}}
            archived == {conversionRun.archive[k] : k \in DOMAIN conversionRun.archive}
            indexed == {conversionRun.index[k].uid : k \in DOMAIN conversionRun.index}
        IN  /\ \A fid \in archived \cup indexed : fid \in category /\ ~Early(fid)
            /\ conversionRun.raised = "" =>
                 /\ archived = {fid \in category : ~Early(fid)}
                 /\ indexed = archived

\* A completed branded run with a cutoff that cut one food of the category
\* and kept another whose brand row is dated on the cutoff.
C18_Witness ==
    /\ conversionRun.called
    /\ conversionRun.foodSource = BRANDED
    /\ conversionRun.cutDate # None
    /\ conversionRun.raised = ""
    /\ Len(conversionRun.csvFoods) = 2
    /\ conversionRun.archive = <<2>>
    /\ \E k \in DOMAIN conversionRun.csvFoods : conversionRun.csvFoods[k].fid = 1
    /\ \E k \in DOMAIN conversionRun.brandRows :
          /\ conversionRun.brandRows[k].fid = 2
          /\ conversionRun.brandRows[k].discontinued = conversionRun.cutDate

\* C19: a getFood call for an id the active source has no food of ends in
\* an error, and the source's cache has no entry for that id after it.
C19_AbsentIdRaises ==
    (/\ lastCall.op = "getFood"
     /\ lastCall.source \in DOMAIN foodSources
     /\ lastCall.index \notin DOMAIN StoredFoods) =>
        /\ lastCall.raised # ""
        /\ lastCall.index \notin DOMAIN foodSources[lastCall.source]

\* C21: the index a completed conversion writes has one line per food of
\* the archive, in the same order, every id that of a row of the target
\* category, the ids ascending, and strictly ascending when no two rows of
\* the food table share an id, whatever the order of the rows.
C21_IndexAscending ==
    (conversionRun.called /\ conversionRun.raised = "") =>
        LET csvFoods == conversionRun.csvFoods
            index == conversionRun.index
        IN  /\ [k \in DOMAIN index |-> index[k].uid] = conversionRun.archive
            /\ \A k \in DOMAIN index :
                  \E j \in DOMAIN csvFoods :
                      /\ csvFoods[j].fid = index[k].uid
                      /\ csvFoods[j].foodSource = conversionRun.foodSource
            /\ \A k \in 1..(Len(index) - 1) : index[k].uid <= index[k + 1].uid
            /\ (\A i, j \in DOMAIN csvFoods :
                    csvFoods[i].fid = csvFoods[j].fid => i = j) =>
                 \A k \in 1..(Len(index) - 1) : index[k].uid < index[k + 1].uid

\* A completed run on a food table that lists id 3 before id 2, with both
\* in the index.
C21_Witness ==
    /\ conversionRun.called
    /\ conversionRun.raised = ""
    /\ Len(conversionRun.csvFoods) = 2
    /\ conversionRun.csvFoods[1].fid = 3
    /\ conversionRun.csvFoods[2].fid = 2
    /\ Len(conversionRun.index) = 2
    /\ conversionRun.index[1].uid = 2
    /\ conversionRun.index[2].uid = 3

\* C22: getMeals of a constructed day lists the nonzero meal ids of its
\* serving list, each once and in ascending order, never 0, and the day has
\* a meal total for exactly those ids.
C22_MealsOfTheList ==
    day.built =>
        /\ {day.meals[k] : k \in DOMAIN day.meals} = MealIds(day.servings)
        /\ \A k \in 1..(Len(day.meals) - 1) : day.meals[k] < day.meals[k + 1]
        /\ \A k \in DOMAIN day.meals : day.meals[k] # 0
        /\ DOMAIN day.mealNutrition = MealIds(day.servings)

\* A day whose list has a serving of meal 0, a serving of meal 2 before one
\* of meal 1, and a meal with two servings.
C22_Witness ==
    /\ day.built
    /\ \E k \in DOMAIN day.servings : day.servings[k].meal = 0
    /\ \E i, j \in DOMAIN day.servings :
          i < j /\ day.servings[i].meal = 2 /\ day.servings[j].meal = 1
    /\ day.meals = <<1, 2>>

\* A day with meal 1 twice in its list.
C22_WitnessRepeated ==
    /\ day.built
    /\ \E i, j \in DOMAIN day.servings :
          i # j /\ day.servings[i].meal = 1 /\ day.servings[j].meal = 1
    /\ day.meals = <<1>>

\* C28: every vector of a constructed day, the vector of each serving, the
\* total of each meal and the day total, has as many entries as the schema
\* has nutrients, the day of the empty serving list included.
C28_VectorLengths ==
    day.built =>
        /\ \A k \in DOMAIN day.servingTuples :
              Len(day.servingTuples[k]) = Len(Nutrients)
        /\ \A m \in DOMAIN day.mealNutrition :
              Len(day.mealNutrition[m]) = Len(Nutrients)
        /\ Len(day.nutrition) = Len(Nutrients)

\* The float sum of the amounts of rows, added in row order.
RECURSIVE AmountSum(_)
AmountSum(rows) ==
    IF rows = << >> THEN 0
    ELSE FAdd(AmountSum(SubSeq(rows, 1, Len(rows) - 1)), rows[Len(rows)].amount)

\* C23: the nutrient list a food is constructed with, before the omega
\* correction, has an entry for a schema nutrient exactly when a raw row of
\* the food has an id of the nutrient's usda ids, one entry then, its amount
\* the sum of the amounts of all those rows; it has no entry of any other
\* name, so a raw row of an id no schema nutrient lists gives no entry.
C23_EntriesBeforeCorrection ==
    (omega.built /\ omega.applied = 0) =>
        /\ \A i \in DOMAIN LoaderSchema :
              LET rows == SelectSeq(omega.raw,
                                    LAMBDA n : n.nid \in LoaderSchema[i].usdaIds)
                  entries == EntriesNamed(omega.nutrients, LoaderSchema[i].name)
              IN  /\ rows = << >> <=> entries = << >>
                  /\ rows # << >> =>
                       /\ Len(entries) = 1
                       /\ entries[1].amount = AmountSum(rows)
        /\ \A e \in DOMAIN omega.nutrients :
              \E i \in DOMAIN LoaderSchema :
                  omega.nutrients[e].name = LoaderSchema[i].name

\* A food constructed from a raw row no schema nutrient lists and two rows of
\* different ids of Omega-3, whose only entry is their sum.
C23_Witness ==
    /\ omega.built
    /\ omega.applied = 0
    /\ RawHas(omega.raw, 1270)
    /\ RawHas(omega.raw, 1404)
    /\ RawHas(omega.raw, 1278)
    /\ omega.nutrients = <<FoodNutrient("Omega-3", FLit(2, 1))>>

\* The position of a nutrient name in the schema.
SchemaPosition(name) ==
    CHOOSE i \in DOMAIN LoaderSchema : LoaderSchema[i].name = name

\* C24: every call of generateFoods returns its foods, also when the omega
\* correction changed one of them, and every food returned has its nutrient
\* entries in schema order with no name twice.
C24_CanonicalOrder ==
    newFoods.called =>
        /\ newFoods.raised = ""
        /\ \A k \in DOMAIN newFoods.foods :
              LET nutrients == newFoods.foods[k].nutrients
              IN  \A i, j \in DOMAIN nutrients :
                      i < j => SchemaPosition(nutrients[i].name)
                                 < SchemaPosition(nutrients[j].name)

\* The name the measure table gives a unit id ("" for the id 9999, which
\* stands for no unit).
UnitName(measureId) ==
    IF measureId = 9999 THEN ""
    ELSE CsvMeasures[CHOOSE k \in DOMAIN CsvMeasures :
                        CsvMeasures[k].pid = measureId].name

\* The non-empty ones of some parts, joined by single spaces.
SpaceJoined(parts) == Join(SelectSeq(parts, LAMBDA x : x # ""), " ")

\* The portion rows of a food, in the order of the table.
PortionsOf(portions, fid) == SelectSeq(portions, LAMBDA por : por.fid = fid)

\* The measures of the map are those of the portion rows, food by food and
\* row by row, each with the grams and the amount of its row and with the
\* description Described(row).
MeasuresFollowPortions(Described(_)) ==
    (measuresRun.called /\ measuresRun.raised = "") =>
        /\ DOMAIN measuresRun.toRet =
              {measuresRun.portions[k].fid : k \in DOMAIN measuresRun.portions}
        /\ \A fid \in DOMAIN measuresRun.toRet :
              LET pors == PortionsOf(measuresRun.portions, fid)
                  ms == measuresRun.toRet[fid]
              IN  /\ Len(ms) = Len(pors)
                  /\ \A k \in DOMAIN pors :
                        /\ ms[k].grams = pors[k].grams
                        /\ ms[k].amount = pors[k].amount
                        /\ ms[k].description = Described(pors[k])

\* C25 as the code has it: the description of a portion-derived measure is
\* the measure-unit name, then the portion description, then the modifier,
\* empty parts left out and the rest joined by single spaces; the grams and
\* the amount are the portion's.
C25_UnitNameFirst ==
    MeasuresFollowPortions(
        LAMBDA por : SpaceJoined(<<UnitName(por.measureId), por.description,
                                   por.modifier>>))

\* C25 as stated: the portion description comes first, then the
\* measure-unit name, then the modifier.
C25_DescriptionFirst ==
    MeasuresFollowPortions(
        LAMBDA por : SpaceJoined(<<por.description, UnitName(por.measureId),
                                   por.modifier>>))

\* A map made from a portion that has a unit name, a description and a
\* modifier, and from a portion of the same food that has none of them.
C25_Witness ==
    /\ measuresRun.called
    /\ measuresRun.raised = ""
    /\ \E k \in DOMAIN measuresRun.portions :
          /\ measuresRun.portions[k].measureId # 9999
          /\ measuresRun.portions[k].description # ""
          /\ measuresRun.portions[k].modifier # ""
    /\ 2 \in DOMAIN measuresRun.toRet
    /\ \E k \in DOMAIN measuresRun.toRet[2] :
          measuresRun.toRet[2][k].description = "tbsp heaped level"
    /\ 3 \in DOMAIN measuresRun.toRet
    /\ measuresRun.toRet[3][1].description = ""

\* C26: a call of generateMeasures on portions one of which has a unit id
\* the table has no name for (and that is not 9999) returns a map, and the
\* map has the measures of all the other portions, food by food in row
\* order.
C26_OnlyThatPortionSkipped ==
    (/\ measuresRun.called
     /\ \E k \in DOMAIN measuresRun.portions :
           /\ measuresRun.portions[k].measureId # 9999
           /\ \A j \in DOMAIN CsvMeasures :
                 CsvMeasures[j].pid # measuresRun.portions[k].measureId) =>
        LET Known(por) ==
                \/ por.measureId = 9999
                \/ \E j \in DOMAIN CsvMeasures : CsvMeasures[j].pid = por.measureId
            good == SelectSeq(measuresRun.portions, Known)
        IN  /\ measuresRun.raised = ""
            /\ \A fid \in {good[k].fid : k \in DOMAIN good} :
                  /\ fid \in DOMAIN measuresRun.toRet
                  /\ Len(measuresRun.toRet[fid]) = Len(PortionsOf(good, fid))

\* The base name of a food: the name of its row of the food table.
BaseName(fid) == (CHOOSE f \in FoodPool : f.fid = fid).name

\* The brand row generateFoods uses for a food: the last row of its id.
BrandOf(fid) ==
    LET rows == {k \in DOMAIN newFoods.brandInfo : newFoods.brandInfo[k].fid = fid}
    IN  IF rows = {} THEN None ELSE newFoods.brandInfo[SetMax(rows)]

\* Every returned food without a brand row has its base name, and every
\* returned food with one has its base name, then the tokens Makers(row),
\* then the subbrand when it is not empty, joined by commas.
NamesFollowBrands(Makers(_)) ==
    \A k \in DOMAIN newFoods.foods :
        LET food == newFoods.foods[k]
            bi == BrandOf(food.uid)
        IN  IF bi = None THEN food.name = BaseName(food.uid)
            ELSE food.name =
                   Join(<<BaseName(food.uid)>> \o Makers(bi)
                        \o (IF bi.subbrand # "" THEN <<bi.subbrand>> ELSE << >>), ",")

Similar(bi) ==
    /\ bi.owner # << >>
    /\ bi.brand # << >>
    /\ ~RatioBelowHalf(Lower(bi.owner), Lower(bi.brand))

\* C27 as the code has it: owner and brand are appended, each only when not
\* empty, in that order; when both are there and their similarity ratio is
\* 0.5 or more the owner is left out and the brand alone is appended.
C27_BrandKeptWhenSimilar ==
    NamesFollowBrands(
        LAMBDA bi : (IF bi.owner # << >> /\ ~Similar(bi) THEN <<Str(bi.owner)>>
                     ELSE << >>)
                    \o (IF bi.brand # << >> THEN <<Str(bi.brand)>> ELSE << >>))

\* C27 as stated: when both are there and their similarity ratio is 0.5 or
\* more the brand is left out and the owner alone is appended.
C27_BrandSkippedWhenSimilar ==
    NamesFollowBrands(
        LAMBDA bi : (IF bi.owner # << >> THEN <<Str(bi.owner)>> ELSE << >>)
                    \o (IF bi.brand # << >> /\ ~Similar(bi) THEN <<Str(bi.brand)>>
                        ELSE << >>))

\* Returned foods with a brand row whose owner and brand are similar, and
\* with none at all.
C27_Witness ==
    /\ newFoods.called
    /\ newFoods.raised = ""
    /\ \E k \in DOMAIN newFoods.foods :
          /\ BrandOf(newFoods.foods[k].uid) # None
          /\ Similar(BrandOf(newFoods.foods[k].uid))
    /\ \E k \in DOMAIN newFoods.foods : BrandOf(newFoods.foods[k].uid) = None


\* C29: an addSource(s) that returns leaves s active with an empty cache, so
\* the next getFood(s, id) goes to the loader for every id, cached before or
\* not, and the cache of every other active source is as it was; removeSource
\* of a source that is not active changes neither the sources nor the foods.
C29_AddSourceEmptyCache ==
    [][/\ \A s \in Sources, f \in IndexFiles :
            (AddSource(s, f) /\ ~WrapperInitRaises(s, f)) =>
               /\ s \in DOMAIN foodSources'
               /\ \A i \in FoodIds :
                     \E r \in {ManagerGetFood(foodSources', created', s, i)} :
                        r.invoked = 1 \/ r.raised = "AttributeError"
               /\ \A u \in DOMAIN foodSources \ {s} :
                     u \in DOMAIN foodSources' /\ foodSources'[u] = foodSources[u]
       /\ \A s \in Sources :
            (RemoveSource(s) /\ s \notin DOMAIN foodSources) =>
               /\ foodSources' = foodSources
               /\ created' = created
               /\ loads' = loads]_vars

\* C29's case: a second object of one user food, loaded by the getFood that
\* followed a renewed addSource, while another source is active.
C29_Witness ==
    /\ lastCall.op = "getFood"
    /\ lastCall.source = USER
    /\ lastCall.invoked = 1
    /\ lastCall.value # NoneObj
    /\ created[USER][lastCall.index] = 2
    /\ CRDB \in DOMAIN foodSources

\* The measure lists of the foods of one run, in the order returned.
MeasureListsOf(foods) == [k \in DOMAIN foods |-> foods[k].measures]

\* C30: a generateFoods call leaves the measures map it was given as it was,
\* and the same call made again on that map returns foods with the same
\* measure lists.
C30_InputsUnchanged ==
    [][\A csvFoods \in CsvFoodLists, dir \in CsvDirs :
          GenerateFoods(csvFoods, dir.conversion, dir.nutrients, dir.brandInfo) =>
             /\ measuresMap' = measuresMap
             /\ \E again \in {GenerateFoodsOf(csvFoods, measuresMap', dir.conversion,
                                               LoaderSchema, dir.nutrients,
                                               dir.brandInfo)} :
                   (newFoods'.raised = "" /\ again.raised = "") =>
                      MeasureListsOf(again.foods) = MeasureListsOf(newFoods'.foods)]_vars

=========================================================================
